---- MODULE Spec2Model ----
(***************************************************************************)
(* Voice diary bot: staging area, encoder supervision, daily notes and the *)
(* per-attachment coordinator, modelled from src/src/*.py.                 *)
(*                                                                         *)
(* Text is modelled as a sequence of one-character strings, a path as a    *)
(* sequence of components (each a text); an absolute path starts with the  *)
(* component ROOT.                                                         *)
(***************************************************************************)
EXTENDS Integers, Sequences, FiniteSets, TLC

(***************************************************************************)
(* Bounds of the model.                                                    *)
(***************************************************************************)
\* longest generated input filename of the command-construction checks
MaxNameLen == 5
\* largest number of bytes a download or an encoder run writes to one file
MaxBytes == 2
\* number of message handlers that may be in flight together
NumMsgs == 2
\* number of messages received in one run
MaxMsgs == 2
\* number of calendar days the wall clock can pass through
MaxDays == 2
\* configured processing timeout (seconds) of the coordinator checks
BotTimeout == 1
\* largest configured processing timeout (seconds) of the supervision checks
MaxTimeout == 62
\* seconds by which the event loop may run a due timer late
MaxLate == 1

(***************************************************************************)
(* Text helpers.                                                           *)
(***************************************************************************)
Alphabet == {"a", ".", "m", "4", "M", "/"}

RECURSIVE TextsOfLen(_)
TextsOfLen(n) ==
    IF n = 0 THEN {<<>>}
    ELSE {Append(s, c) : s \in TextsOfLen(n - 1), c \in Alphabet}

TextsUpTo(n) == UNION {TextsOfLen(k) : k \in 0..n}

\* str.lower() on the characters the model uses
LowerChar(c) ==
    CASE c = "M" -> "m"
      [] c = "A" -> "a"
      [] c = "C" -> "c"
      [] c = "Y" -> "y"
      [] c = "E" -> "e"
      [] c = "S" -> "s"
      [] OTHER -> c

Lower(s) == [i \in 1..Len(s) |-> LowerChar(s[i])]

\* str.rfind(c): 1-based position of the last c in s, 0 when there is none
RFind(s, c) ==
    IF \E i \in 1..Len(s) : s[i] = c
    THEN CHOOSE i \in 1..Len(s) : s[i] = c /\ \A j \in (i + 1)..Len(s) : s[j] # c
    ELSE 0

\* str(int) for non-negative integers
DigitChar(d) ==
    CASE d = 0 -> "0" [] d = 1 -> "1" [] d = 2 -> "2" [] d = 3 -> "3"
      [] d = 4 -> "4" [] d = 5 -> "5" [] d = 6 -> "6" [] d = 7 -> "7"
      [] d = 8 -> "8" [] d = 9 -> "9"

RECURSIVE IntToText(_)
IntToText(n) ==
    IF n < 10 THEN <<DigitChar(n)>>
    ELSE Append(IntToText(n \div 10), DigitChar(n % 10))

(***************************************************************************)
(* pathlib: parsing, joining, name, suffix, stem, parent, str.             *)
(***************************************************************************)
ROOT == <<"/">>

\* the components of a text split at "/", empty and "." components dropped
RECURSIVE SplitParts(_, _, _)
SplitParts(s, i, cur) ==
    LET keep == cur # <<>> /\ cur # <<".">> IN
    IF i > Len(s) THEN (IF keep THEN <<cur>> ELSE <<>>)
    ELSE IF s[i] = "/"
         THEN (IF keep THEN <<cur>> ELSE <<>>) \o SplitParts(s, i + 1, <<>>)
         ELSE SplitParts(s, i + 1, Append(cur, s[i]))

\* Path(text)
ParsePath(s) ==
    IF Len(s) > 0 /\ s[1] = "/"
    THEN <<ROOT>> \o SplitParts(s, 1, <<>>)
    ELSE SplitParts(s, 1, <<>>)

\* dir / text : an absolute right operand replaces the left one
PathJoin(dir, s) ==
    LET p == ParsePath(s) IN
    IF Len(p) > 0 /\ p[1] = ROOT THEN p ELSE dir \o p

\* Path.name
PathName(p) ==
    IF Len(p) = 0 \/ p[Len(p)] = ROOT THEN <<>> ELSE p[Len(p)]

\* Path.parent
PathParent(p) ==
    IF Len(p) = 0 \/ p = <<ROOT>> THEN p ELSE SubSeq(p, 1, Len(p) - 1)

\* Path.suffix: the part of the name from its last dot, unless that dot is
\* the first or the last character of the name
PathSuffix(p) ==
    LET name == PathName(p)
        i == RFind(name, ".")
    IN IF 1 < i /\ i < Len(name) THEN SubSeq(name, i, Len(name)) ELSE <<>>

\* Path.stem
PathStem(p) ==
    LET name == PathName(p)
        i == RFind(name, ".")
    IN IF 1 < i /\ i < Len(name) THEN SubSeq(name, 1, i - 1) ELSE name

\* str(path)
RECURSIVE JoinParts(_)
JoinParts(p) ==
    IF Len(p) = 0 THEN <<>>
    ELSE IF Len(p) = 1 THEN p[1]
    ELSE p[1] \o <<"/">> \o JoinParts(Tail(p))

PathStr(p) ==
    IF Len(p) = 0 THEN <<".">>
    ELSE IF p[1] = ROOT THEN <<"/">> \o JoinParts(Tail(p))
    ELSE JoinParts(p)


(***************************************************************************)
(* Settings (src/src/settings.py) and the staging layout                   *)
(* (StorageManager.__init__).                                              *)
(***************************************************************************)
N_work == <<"w", "o", "r", "k">>
N_inbox == <<"i", "n", "b", "o", "x">>
N_out == <<"o", "u", "t">>
N_assets == <<"a", "s", "s", "e", "t", "s">>
N_bg == <<"b", "g", ".", "j", "p", "g">>
N_notes == <<"n", "o", "t", "e", "s">>

\* Settings.work_dir default
WorkDir == <<ROOT, N_work>>
\* Settings.background_image default
BackgroundImage == <<ROOT, N_work, N_assets, N_bg>>
\* StorageManager.inbox_dir / output_dir / assets_dir
InboxDir == WorkDir \o <<N_inbox>>
OutputDir == WorkDir \o <<N_out>>
AssetsDir == WorkDir \o <<N_assets>>
\* Settings.transcription_output_dir
NotesDir == <<ROOT, N_notes>>

\* the accepted range of Settings.audio_bitrate
MinBitrate == 64
MaxBitrate == 128
DefaultBitrate == 96
Bitrates == {MinBitrate, DefaultBitrate, MaxBitrate}

\* StorageManager.get_inbox_path
get_inbox_path(filename) == PathJoin(InboxDir, filename)

\* get_output_path appending ".mp4" to the whole name
get_output_path_KeepsName(input_filename) ==
    LET base_name == PathName(ParsePath(input_filename))
        output_filename == base_name \o <<".", "m", "p", "4">>
    IN PathJoin(OutputDir, output_filename)

\* StorageManager.get_output_path
get_output_path(input_filename) ==
    LET base_name == PathStem(ParsePath(input_filename))
        output_filename == base_name \o <<".", "m", "p", "4">>
    IN PathJoin(OutputDir, output_filename)

(***************************************************************************)
(* FFmpegRunner.build_command: the encoder command as a list of tokens.    *)
(***************************************************************************)
T_ffmpeg == <<"f", "f", "m", "p", "e", "g">>
T_y == <<"-", "y">>
T_loop == <<"-", "l", "o", "o", "p">>
T_1 == <<"1">>
T_i == <<"-", "i">>
T_cv == <<"-", "c", ":", "v">>
T_libx264 == <<"l", "i", "b", "x", "2", "6", "4">>
T_preset == <<"-", "p", "r", "e", "s", "e", "t">>
T_veryfast == <<"v", "e", "r", "y", "f", "a", "s", "t">>
T_profile == <<"-", "p", "r", "o", "f", "i", "l", "e", ":", "v">>
T_baseline == <<"b", "a", "s", "e", "l", "i", "n", "e">>
T_tune == <<"-", "t", "u", "n", "e">>
T_stillimage == <<"s", "t", "i", "l", "l", "i", "m", "a", "g", "e">>
T_pix_fmt == <<"-", "p", "i", "x", "_", "f", "m", "t">>
T_yuv420p == <<"y", "u", "v", "4", "2", "0", "p">>
T_ca == <<"-", "c", ":", "a">>
T_copy == <<"c", "o", "p", "y">>
T_aac == <<"a", "a", "c">>
T_ba == <<"-", "b", ":", "a">>
T_ac == <<"-", "a", "c">>
T_shortest == <<"-", "s", "h", "o", "r", "t", "e", "s", "t">>
T_movflags == <<"-", "m", "o", "v", "f", "l", "a", "g", "s">>
T_faststart == <<"+", "f", "a", "s", "t", "s", "t", "a", "r", "t">>
T_mmqs == <<"-", "m", "a", "x", "_", "m", "u", "x", "i", "n", "g", "_", "q", "u", "e", "u", "e", "_", "s", "i", "z", "e">>
T_1024 == <<"1", "0", "2", "4">>

Ext_aac == <<".", "a", "a", "c">>
Ext_m4a == <<".", "m", "4", "a">>

\* a break of the copy heuristic: the suffix is compared without lower()
can_copy_audio_CaseSensitive(input_audio) ==
    PathSuffix(input_audio) \in {Ext_aac, Ext_m4a}

\* FFmpegRunner._can_copy_audio
can_copy_audio(input_audio) ==
    Lower(PathSuffix(input_audio)) \in {Ext_aac, Ext_m4a}

\* FFmpegRunner.build_command
build_command(input_audio, output_video, audio_bitrate) ==
    LET can_copy == can_copy_audio(input_audio)
        head == << T_ffmpeg, T_y, T_loop, T_1,
                   T_i, PathStr(BackgroundImage),
                   T_i, PathStr(input_audio),
                   T_cv, T_libx264, T_preset, T_veryfast,
                   T_profile, T_baseline, T_tune, T_stillimage,
                   T_pix_fmt, T_yuv420p,
                   T_ca, IF can_copy THEN T_copy ELSE T_aac >>
        rate == IF ~can_copy
                THEN << T_ba, IntToText(audio_bitrate) \o <<"k">> >>
                ELSE << >>
        tail == << T_ac, T_1, T_shortest, T_movflags, T_faststart,
                   T_mmqs, T_1024, PathStr(output_video) >>
    IN head \o rate \o tail


(***************************************************************************)
(* State.                                                                  *)
(***************************************************************************)
VARIABLES
    settings,   \* the Settings snapshot, fixed at construction
    fs,         \* regular files of the staging area: path -> size in bytes
    notes,      \* daily notes: date -> the blocks written to the note file
    today,      \* the calendar date of datetime.now()
    h,          \* per message handler (on_message task): its local state
    calls,      \* history: process_transcription calls in call order
    appended,   \* history: successful appends, [call, date], in append order
    received,   \* number of messages handed to the handlers so far
    message,    \* the message on_message was last called with
    app,        \* the application: how the construction of Settings went
    cmdName,    \* command construction: the input filename
    cmd,        \* command construction: the built command, <<>> before
    stoCall,    \* storage: the last cleanup call, a record [op, path]
    stoBefore   \* storage: the files before the last cleanup call

cmdVars == <<cmdName, cmd>>
stoVars == <<stoCall, stoBefore>>
botVars == <<notes, today, h, calls, appended, received, message, app>>
vars == <<settings, fs, botVars, cmdVars, stoVars>>

BotModes == {"video", "transcription"}

\* Settings.max_file_size and Settings.processing_timeout defaults
DefaultMaxFileSize == 26214400
DefaultTimeout == 300

\* Settings.__post_init__: the checks a constructed Settings has passed
SettingsValid(st) ==
    /\ MinBitrate <= st.audio_bitrate /\ st.audio_bitrate <= MaxBitrate
    /\ st.max_file_size > 0
    /\ st.processing_timeout > 0

\* Settings.channel_id: the monitored channel, and some other channel
MonitoredChannel == 1
OtherChannel == MonitoredChannel + 1

\* before Settings is constructed, and the application once it runs with the
\* settings of the state
NoSettings == <<>>
AppIdle == [pc |-> "running", via |-> "", args |-> <<>>, error |-> ""]

\* before on_message has been called
NoMessage == [author_is_bot |-> FALSE, channel_id |-> MonitoredChannel, attachments |-> <<>>]

DefaultSettings ==
    [bot_mode |-> "video", delete_on_success |-> FALSE,
     audio_bitrate |-> DefaultBitrate, max_file_size |-> DefaultMaxFileSize,
     processing_timeout |-> DefaultTimeout, channel_id |-> MonitoredChannel,
     work_dir |-> WorkDir, background_image |-> BackgroundImage]

CmdIdle == cmdName = <<>> /\ cmd = <<>>
StoIdle ==
    /\ stoCall = [op |-> "none", path |-> <<>>, raised |-> FALSE]
    /\ stoBefore = <<>>

(***************************************************************************)
(* Message handlers.  discord.py runs on_message as one task per message,  *)
(* so handlers interleave at every await; the code between two awaits is   *)
(* one step.                                                               *)
(***************************************************************************)
Msgs == 1..NumMsgs

\* the result of convert_audio_to_video before any call
NoResult ==
    [kind |-> "none", msg |-> "", inner |-> "", msg_num |-> <<>>,
     return_code |-> <<>>, stderr |-> <<>>]

\* a handler with no message
IdleHandler ==
    [pc |-> "idle", atts |-> <<>>, idx |-> 0, err |-> "", error_msg |-> <<>>,
     sent |-> <<>>,
     outcome |-> <<>>,
     dlOff |-> 0, dlLinked |-> FALSE,
     proc |-> "none", returncode |-> <<>>, exitcode |-> 0, stderr |-> <<>>,
     outOpen |-> FALSE, outOff |-> 0, outLinked |-> FALSE,
     elapsed |-> 0, waitLeft |-> 0, lastCheck |-> 0, progress |-> 0,
     tripped |-> FALSE, result |-> NoResult]

BotIdle ==
    /\ notes = <<>>
    /\ today = 1
    /\ h = [m \in Msgs |-> IdleHandler]
    /\ calls = <<>>
    /\ appended = <<>>
    /\ received = 0
    /\ message = NoMessage
    /\ app = AppIdle

F_a_ogg == <<"a", ".", "o", "g", "g">>
F_a_m4a == <<"a", ".", "m", "4", "a">>
\* filenames of the attachments: two names with one stem
BotNames == {F_a_ogg, F_a_m4a}
\* the inbox and output paths of the attachment names, computed once
InboxPaths == [name \in BotNames |-> get_inbox_path(name)]
OutputPaths == [name \in BotNames |-> get_output_path(name)]

\* the attachment a handler is processing, and its staged paths
\* (_process_video_mode / _process_transcription_mode, first lines)
Att(hk) == hk.atts[hk.idx]
InPath(hk) == InboxPaths[Att(hk).filename]
OutPath(hk) == OutputPaths[Att(hk).filename]
InFlight(hk) == hk.pc \notin {"idle", "done", "crashed"}

(***************************************************************************)
(* Files.  Only this system writes below the work directory, so every      *)
(* entry below inbox/ and out/ is a regular file; the managed directories  *)
(* themselves exist (StorageManager._ensure_directories).                  *)
(***************************************************************************)
Dirs == {<<ROOT>>, WorkDir, InboxDir, OutputDir, AssetsDir, NotesDir}

\* Path.exists()
Exists(f, p) == p \in DOMAIN f \/ p \in Dirs
\* Path.exists() and Path.is_file()  (StorageManager.file_exists)
file_exists(f, p) == Exists(f, p) /\ p \in DOMAIN f

\* Path.unlink() of a regular file
Unlink(f, p) == [q \in DOMAIN f \ {p} |-> f[q]]
\* open(p, "wb") and the first write of an opened file: create or truncate
Truncate(f, p) == [q \in DOMAIN f \cup {p} |-> IF q = p THEN 0 ELSE f[q]]
\* a write of one byte at offset off through an open handle
WriteAt(f, p, off) ==
    [q \in DOMAIN f \cup {p} |->
        IF q = p THEN (IF p \in DOMAIN f /\ f[p] > off + 1 THEN f[p] ELSE off + 1)
        ELSE f[q]]

\* a break of the inbox guard: any existing path is deleted
cleanup_inbox_file_NoGuard(f, p) ==
    IF p \in DOMAIN f THEN Unlink(f, p) ELSE f

\* StorageManager.cleanup_inbox_file
cleanup_inbox_file(f, p) ==
    IF Exists(f, p) /\ PathParent(p) = InboxDir THEN Unlink(f, p) ELSE f

\* a break of the output policy: the flag is read the wrong way round
cleanup_output_file_PolicyInverted(f, p, st) ==
    IF ~st.delete_on_success /\ Exists(f, p) /\ PathParent(p) = OutputDir
    THEN Unlink(f, p) ELSE f

\* StorageManager.cleanup_output_file
cleanup_output_file(f, p, st) ==
    IF st.delete_on_success /\ Exists(f, p) /\ PathParent(p) = OutputDir
    THEN Unlink(f, p) ELSE f

\* StorageManager.get_file_size: <<>> models None
get_file_size(f, p) == IF ~file_exists(f, p) THEN <<>> ELSE <<f[p]>>

\* a break of the validation: every file, and a missing one, is accepted
validate_file_size_AcceptsAll(f, p, st) == TRUE

\* validate_file_size rejecting a file of exactly the limit
validate_file_size_BelowLimit(f, p, st) ==
    LET file_size == get_file_size(f, p) IN
    IF file_size = <<>> THEN FALSE ELSE file_size[1] < st.max_file_size

\* StorageManager.validate_file_size
validate_file_size(f, p, st) ==
    LET file_size == get_file_size(f, p) IN
    IF file_size = <<>> THEN FALSE ELSE file_size[1] <= st.max_file_size

(***************************************************************************)
(* FFmpegRunner.convert_audio_to_video: results and failure classification.*)
(***************************************************************************)
\* check_interval of _monitor_process_with_timeout, and its asyncio.sleep(1)
CheckInterval == 30
SleepStep == 1
\* Process.returncode of a child ended by Process.kill() (SIGKILL)
KilledCode == -9

Min(a, b) == IF a < b THEN a ELSE b
Max(a, b) == IF a > b THEN a ELSE b

\* bytes.decode("utf-8", errors="replace"): an invalid byte becomes U+FFFD,
\* written "?" here; the invalid byte itself is written "xff"
DecodeChar(b) == IF b = "xff" THEN "?" ELSE b
Decode(bytes) == [i \in 1..Len(bytes) |-> DecodeChar(bytes[i])]

\* what the encoder may write to its stderr pipe
StderrSamples == {<<>>, <<"e">>, <<"e", "xff">>}
\* exit codes of the encoder when it ends on its own
ExitCodes == {0, 1}

\* normal return of convert_audio_to_video
OkResult == [NoResult EXCEPT !.kind = "ok"]

\* an exception other than FFmpegError, with its message
Raised(kind, msg, num) ==
    [kind |-> kind, msg |-> msg, inner |-> "", msg_num |-> num,
     return_code |-> <<>>, stderr |-> <<>>]

\* FFmpegError(message, return_code, stderr); <<>> models None
FFmpegError(msg, inner, num, rc, err) ==
    [kind |-> "FFmpegError", msg |-> msg, inner |-> inner, msg_num |-> num,
     return_code |-> rc, stderr |-> err]

\* a break of the handlers: asyncio.TimeoutError has no clause of its own
ExceptDispatch_NoTimeoutClause(e, timeout) ==
    IF e.kind = "FileNotFoundError"
    THEN FFmpegError("FFmpeg executable not found", "", <<>>, <<>>, <<>>)
    ELSE FFmpegError("Unexpected error during FFmpeg conversion", e.msg,
                     e.msg_num, <<>>, <<>>)

\* a break of the handlers: FileNotFoundError has no clause of its own
ExceptDispatch_NoNotFoundClause(e, timeout) ==
    IF e.kind = "TimeoutError"
    THEN FFmpegError("FFmpeg conversion timed out after {timeout} seconds", "",
                     <<timeout>>, <<>>, <<>>)
    ELSE FFmpegError("Unexpected error during FFmpeg conversion", e.msg,
                     e.msg_num, <<>>, <<>>)

\* the except clauses of the try block of convert_audio_to_video, in order:
\* asyncio.TimeoutError, FileNotFoundError, Exception.  Every exception
\* raised inside the try, FFmpegError included, leaves through one of them.
ExceptDispatch(e, timeout) ==
    IF e.kind = "TimeoutError"
    THEN FFmpegError("FFmpeg conversion timed out after {timeout} seconds", "",
                     <<timeout>>, <<>>, <<>>)
    ELSE IF e.kind = "FileNotFoundError"
    THEN FFmpegError("FFmpeg executable not found", "", <<>>, <<>>, <<>>)
    ELSE FFmpegError("Unexpected error during FFmpeg conversion", e.msg,
                     e.msg_num, <<>>, <<>>)

\* a break of the validation: an empty output file is accepted
AfterExit_NoSizeCheck(returncode, stderr, f, output_video) ==
    IF returncode # 0
    THEN FFmpegError("FFmpeg failed with return code {returncode}", "",
                     <<returncode>>, <<returncode>>, <<Decode(stderr)>>)
    ELSE IF ~Exists(f, output_video)
    THEN FFmpegError("FFmpeg completed but output file was not created", "",
                     <<>>, <<>>, <<>>)
    ELSE OkResult

\* the statements of the try block after the supervised child has completed:
\* the exception they raise, or OkResult
AfterExit(returncode, stderr, f, output_video) ==
    IF returncode # 0
    THEN FFmpegError("FFmpeg failed with return code {returncode}", "",
                     <<returncode>>, <<returncode>>, <<Decode(stderr)>>)
    ELSE IF ~Exists(f, output_video)
    THEN FFmpegError("FFmpeg completed but output file was not created", "",
                     <<>>, <<>>, <<>>)
    ELSE IF f[output_video] = 0
    THEN FFmpegError("FFmpeg created empty output file", "", <<>>, <<>>, <<>>)
    ELSE OkResult

\* what convert_audio_to_video hands to its caller once the child completed
CompletedResult(returncode, stderr, f, output_video, timeout) ==
    LET r == AfterExit(returncode, stderr, f, output_video) IN
    IF r.kind = "ok" THEN r ELSE ExceptDispatch(r, timeout)

\* every wait_for of the supervision loop given the whole check interval
SliceTimeout_FullInterval(elapsed, timeout) == CheckInterval

\* the timeout passed to asyncio.wait_for in the supervision loop; wait_for
\* with a timeout <= 0 expires at once
SliceTimeout(elapsed, timeout) == Max(0, Min(CheckInterval, timeout - elapsed))

(***************************************************************************)
(* TranscriptionHandler.save_to_markdown.  A note is the sequence of the   *)
(* blocks written to it; the timestamp of an entry is the date of now.     *)
(***************************************************************************)
HeaderBlock(date) ==
    [kind |-> "header", date |-> date, filename |-> <<>>, text |-> <<>>]
EntryBlock(date, filename, transcript) ==
    [kind |-> "entry", date |-> date, filename |-> filename, text |-> transcript]

\* where an OSError can interrupt save_to_markdown: at mkdir or open (the
\* file is not created), at the write of the header, at the write of the entry
SaveFaults == {"ok", "open", "header", "entry"}

\* the write at which the OSError strikes: the header is written to a new
\* file only
EffectiveFault(nt, date, fault) ==
    IF fault = "header" /\ date \in DOMAIN nt THEN "ok" ELSE fault

\* whether save_to_markdown raises OSError
save_raises(nt, date, fault) == EffectiveFault(nt, date, fault) # "ok"

\* a break of the writer: the note is opened with "w" instead of "a"
save_to_markdown_Truncating(nt, date, filename, transcript, fault) ==
    LET eff == EffectiveFault(nt, date, fault)
        template_header == IF date \in DOMAIN nt THEN <<>> ELSE <<HeaderBlock(date)>>
        written ==
            IF eff = "header" THEN <<>>
            ELSE IF eff = "entry" THEN template_header
            ELSE template_header \o <<EntryBlock(date, filename, transcript)>>
    IN IF eff = "open" THEN nt
       ELSE [d \in DOMAIN nt \cup {date} |-> IF d = date THEN written ELSE nt[d]]

\* the notes after save_to_markdown(filename, transcript) run on `date`
save_to_markdown(nt, date, filename, transcript, fault) ==
    LET eff == EffectiveFault(nt, date, fault)
        file_exists_before == date \in DOMAIN nt
        old == IF file_exists_before THEN nt[date] ELSE <<>>
        template_header == IF file_exists_before THEN <<>> ELSE <<HeaderBlock(date)>>
        transcript_entry == <<EntryBlock(date, filename, transcript)>>
        written ==
            IF eff = "header" THEN <<>>
            ELSE IF eff = "entry" THEN template_header
            ELSE template_header \o transcript_entry
    IN IF eff = "open" THEN nt
       ELSE [d \in DOMAIN nt \cup {date} |-> IF d = date THEN old \o written ELSE nt[d]]

(***************************************************************************)
(* VoiceDiaryBot: one attachment after the other, inside one handler.      *)
(***************************************************************************)
\* a handler changes to r; the open handles of the others lose their path
\* when the step unlinked it
DropLinks(hk, removed) ==
    IF hk.idx = 0 THEN hk
    ELSE [hk EXCEPT !.dlLinked = @ /\ InPath(hk) \notin removed,
                    !.outLinked = @ /\ OutPath(hk) \notin removed]

SetH(m, r, removed) ==
    h' = [k \in Msgs |-> IF k = m THEN r ELSE DropLinks(h[k], removed)]

\* the per-attachment fields at the start of _process_audio_attachment
StartAttachment(hm, i) ==
    [IdleHandler EXCEPT !.pc = "reply", !.atts = hm.atts, !.idx = i,
                        !.outcome = hm.outcome]

\* a break of the loop of on_message: the next attachment is started
\* without the one before having reached its terminal state
FinishAttachment_NoTerminal(hm, oc) ==
    IF hm.idx < Len(hm.atts)
    THEN StartAttachment(hm, hm.idx + 1)
    ELSE [IdleHandler EXCEPT !.pc = "done", !.atts = hm.atts, !.idx = hm.idx,
                             !.sent = hm.sent, !.outcome = Append(hm.outcome, oc)]

\* the end of _process_audio_attachment: back in the loop of on_message
FinishAttachment(hm, oc) ==
    LET done == [hm EXCEPT !.outcome = Append(@, oc)] IN
    IF hm.idx < Len(hm.atts)
    THEN StartAttachment(done, hm.idx + 1)
    ELSE [IdleHandler EXCEPT !.pc = "done", !.atts = hm.atts, !.idx = hm.idx,
                             !.sent = hm.sent, !.outcome = done.outcome]

\* error_msg quoting the exception it reports
error_msg_WithDetail(mode, class, filename, e) ==
    <<"U+274C Error processing ", "U+0060">> \o filename \o <<"U+0060", ": ", e.msg>>

\* error_msg of the except clause of `mode` that catches `class`, for the
\* attachment `filename` and the caught exception e; U+274C is the cross mark,
\* U+0060 the backtick
error_msg(mode, class, filename, e) ==
    CASE class = "download" ->
            <<"U+274C Failed to download ", "U+0060">> \o filename \o <<"U+0060", ": Network error">>
      [] class = "ffmpeg" ->
            <<"U+274C Failed to convert ", "U+0060">> \o filename \o <<"U+0060", ": Video processing error">>
      [] OTHER ->
            IF mode = "video"
            THEN <<"U+274C Unexpected error processing ", "U+0060">> \o filename \o <<"U+0060">>
            ELSE <<"U+274C Unexpected error transcribing ", "U+0060">> \o filename \o <<"U+0060">>

\* entering an except clause of _process_video_mode/_process_transcription_mode:
\* the handler awaits _send_error_message
Catch(hm, class) ==
    [hm EXCEPT !.pc = "err_reply", !.err = class,
               !.error_msg = error_msg(settings.bot_mode, class,
                                       hm.atts[hm.idx].filename, hm.result)]

\* the except clause that catches an exception of message.reply / edit:
\* discord.DiscordException is caught by `except Exception`,
\* aiohttp.ClientError by `except aiohttp.ClientError`
ChatOutcomes == {"ok", "discord", "client"}
ChatErrClass(oc) == IF oc = "client" THEN "download" ELSE "unexpected"

\* the caller of convert_audio_to_video receives res (bot.py 168-201)
AfterConvert(hm, res) ==
    LET r == [hm EXCEPT !.result = res] IN
    IF res.kind = "ok" THEN [r EXCEPT !.pc = "edit"]
    ELSE IF res.kind = "FFmpegError" THEN Catch(r, "ffmpeg")
    ELSE Catch(r, "unexpected")

\* convert_audio_to_video up to its first await (ffmpeg_runner.py 170-189)
ConvertCall(hm, f) ==
    LET r == [hm EXCEPT !.proc = "none", !.returncode = <<>>, !.exitcode = 0,
                        !.stderr = <<>>, !.outOpen = FALSE, !.outOff = 0,
                        !.outLinked = FALSE, !.elapsed = 0, !.waitLeft = 0,
                        !.lastCheck = 0, !.progress = 0, !.tripped = FALSE,
                        !.result = NoResult]
    IN IF ~Exists(f, InPath(hm))
       THEN AfterConvert(r, Raised("FileNotFoundError", "Input audio file not found", <<>>))
       ELSE IF ~Exists(f, BackgroundImage)
       THEN AfterConvert(r, Raised("FileNotFoundError", "Background image not found", <<>>))
       ELSE [r EXCEPT !.pc = "launch"]

\* the except clause of _process_transcription_mode that catches an
\* exception of the given class: aiohttp.ClientError has its own clause, the
\* rest is caught by `except Exception`
TranscriptionClause(kind) ==
    IF kind = "ClientError" THEN "download" ELSE "unexpected"

\* process_transcription up to the first await of transcribe_audio
\* (transcription.py 195, 50-66): the audio file is read
TranscribeCall(hm, f) ==
    IF ~file_exists(f, InPath(hm))
    THEN LET e == Raised("OSError", "No such file or directory", <<>>) IN
         Catch([hm EXCEPT !.result = e], TranscriptionClause(e.kind))
    ELSE [hm EXCEPT !.pc = "transcribing"]

\* on_message hands the audio attachments atts of a new message to the
\* handler m, which is not handling a message
Receive(m, atts) ==
    /\ ~InFlight(h[m])
    /\ Len(atts) > 0
    /\ received < MaxMsgs
    /\ received' = received + 1
    /\ SetH(m, StartAttachment([IdleHandler EXCEPT !.atts = atts], 1), {})
    /\ UNCHANGED <<settings, fs, notes, today, calls, appended, cmdVars, stoVars, message, app>>

\* await message.reply(...) of the initial processing message
Reply(m, oc) ==
    /\ h[m].pc = "reply"
    /\ SetH(m, IF oc = "ok"
               THEN [h[m] EXCEPT !.pc = "dl_connect", !.sent = Append(@, "reply")]
               ELSE Catch(h[m], ChatErrClass(oc)), {})
    /\ UNCHANGED <<settings, fs, notes, today, calls, appended, received, cmdVars, stoVars, message, app>>

\* _download_attachment: await session.get, raise_for_status, open(path, "wb")
DlConnect(m, oc) ==
    /\ h[m].pc = "dl_connect"
    /\ oc \in {"ok", "http_error"}
    /\ LET p == InPath(h[m]) IN
       IF oc # "ok"
       THEN /\ SetH(m, Catch(h[m], "download"), {})
            /\ fs' = fs
       ELSE IF p \in Dirs \/ PathParent(p) \notin Dirs
       THEN /\ SetH(m, Catch(h[m], "unexpected"), {})
            /\ fs' = fs
       ELSE /\ fs' = Truncate(fs, p)
            /\ SetH(m, [h[m] EXCEPT !.pc = "dl_stream", !.dlOff = 0,
                                    !.dlLinked = TRUE], {})
    /\ UNCHANGED <<settings, notes, today, calls, appended, received, cmdVars, stoVars, message, app>>

\* one chunk of response.content.iter_chunked is written
DlChunk(m) ==
    /\ h[m].pc = "dl_stream"
    /\ h[m].dlOff < MaxBytes
    /\ fs' = IF h[m].dlLinked THEN WriteAt(fs, InPath(h[m]), h[m].dlOff) ELSE fs
    /\ SetH(m, [h[m] EXCEPT !.dlOff = @ + 1], {})
    /\ UNCHANGED <<settings, notes, today, calls, appended, received, cmdVars, stoVars, message, app>>

\* the stream breaks: aiohttp.ClientError out of iter_chunked
DlFail(m) ==
    /\ h[m].pc = "dl_stream"
    /\ SetH(m, Catch([h[m] EXCEPT !.dlLinked = FALSE], "download"), {})
    /\ UNCHANGED <<settings, fs, notes, today, calls, appended, received, cmdVars, stoVars, message, app>>

\* end of the stream: validate_file_size, then the conversion or the
\* transcription is called
DlEnd(m) ==
    /\ h[m].pc = "dl_stream"
    /\ LET hm == [h[m] EXCEPT !.dlLinked = FALSE] IN
       IF ~validate_file_size(fs, InPath(hm), settings)
       THEN /\ SetH(m, Catch(hm, "unexpected"), {})
            /\ calls' = calls
       ELSE IF settings.bot_mode = "video"
       THEN /\ SetH(m, ConvertCall(hm, fs), {})
            /\ calls' = calls
       ELSE /\ SetH(m, TranscribeCall(hm, fs), {})
            /\ calls' = Append(calls, m)
    /\ UNCHANGED <<settings, fs, notes, today, appended, received, cmdVars, stoVars, message, app>>

(***************************************************************************)
(* The encoder child and its supervision                                   *)
(* (FFmpegRunner.convert_audio_to_video, _monitor_process_with_timeout).   *)
(* proc: "running", "exited" (ended on its own, not yet reaped), "killed"  *)
(* (ended by SIGKILL, not yet reaped), "reaped" (the event loop has        *)
(* collected the exit status and set Process.returncode).                  *)
(***************************************************************************)
LaunchOutcomes == {"ok", "missing", "oserror"}

\* await asyncio.create_subprocess_exec(...), then the first wait_for of the
\* supervision loop
Launch(m, oc) ==
    /\ h[m].pc = "launch"
    /\ LET T == settings.processing_timeout IN
       SetH(m, IF oc = "ok"
               THEN [h[m] EXCEPT !.proc = "running", !.pc = "waiting",
                                 !.elapsed = 0, !.lastCheck = 0,
                                 !.waitLeft = SliceTimeout(0, T)]
               ELSE IF oc = "missing"
               THEN AfterConvert(h[m], ExceptDispatch(
                        Raised("FileNotFoundError", "No such file or directory", <<>>), T))
               ELSE AfterConvert(h[m], ExceptDispatch(
                        Raised("OSError", "Permission denied", <<>>), T)), {})
    /\ UNCHANGED <<settings, fs, notes, today, calls, appended, received, cmdVars, stoVars, message, app>>

\* the encoder opens its output file ("-y": create or truncate), or writes on
ProcWrite(m) ==
    /\ h[m].proc = "running"
    /\ IF ~h[m].outOpen
       THEN /\ fs' = Truncate(fs, OutPath(h[m]))
            /\ SetH(m, [h[m] EXCEPT !.outOpen = TRUE, !.outOff = 0,
                                    !.outLinked = TRUE], {})
       ELSE /\ h[m].outOff < MaxBytes
            /\ fs' = IF h[m].outLinked
                     THEN WriteAt(fs, OutPath(h[m]), h[m].outOff) ELSE fs
            /\ SetH(m, [h[m] EXCEPT !.outOff = @ + 1], {})
    /\ UNCHANGED <<settings, notes, today, calls, appended, received, cmdVars, stoVars, message, app>>

\* the encoder ends on its own
ProcExit(m, code, err) ==
    /\ h[m].proc = "running"
    /\ SetH(m, [h[m] EXCEPT !.proc = "exited", !.exitcode = code,
                            !.stderr = err, !.outLinked = FALSE], {})
    /\ UNCHANGED <<settings, fs, notes, today, calls, appended, received, cmdVars, stoVars, message, app>>

\* the event loop reaps the ended child and sets Process.returncode
LoopObserve(m) ==
    /\ h[m].proc \in {"exited", "killed"}
    /\ SetH(m, [h[m] EXCEPT !.proc = "reaped",
                            !.returncode = <<IF h[m].proc = "killed"
                                             THEN KilledCode ELSE h[m].exitcode>>], {})
    /\ UNCHANGED <<settings, fs, notes, today, calls, appended, received, cmdVars, stoVars, message, app>>

\* one second passes for every handler that waits on a timer; a timer that
\* is due fires before more time passes
Timed(hk) == hk.pc \in {"waiting", "sleeping"}
Tick ==
    /\ \E m \in Msgs : Timed(h[m])
    /\ \A m \in Msgs : Timed(h[m]) => h[m].waitLeft > 0
    /\ h' = [m \in Msgs |->
                IF Timed(h[m])
                THEN [h[m] EXCEPT !.elapsed = @ + 1, !.waitLeft = @ - 1]
                ELSE h[m]]
    /\ UNCHANGED <<settings, fs, notes, today, calls, appended, received, cmdVars, stoVars, message, app>>

\* the child has completed: communicate() returns inside wait_for, or the
\* loop condition finds returncode set after the sleep; the rest of the try
\* block runs
Completed(m) ==
    /\ \/ h[m].pc = "waiting"
       \/ h[m].pc = "sleeping" /\ h[m].waitLeft = 0
    /\ h[m].returncode # <<>>
    /\ SetH(m, AfterConvert(h[m],
                   CompletedResult(h[m].returncode[1], h[m].stderr, fs,
                                   OutPath(h[m]), settings.processing_timeout)), {})
    /\ UNCHANGED <<settings, fs, notes, today, calls, appended, received, cmdVars, stoVars, message, app>>

\* a kill that does not reach the child
process_kill_NoSignal(proc) == proc

\* process.kill() in the handler of the timeout: SIGKILL ends a child that
\* runs; a child that has ended already is left as it is
process_kill(proc) == IF proc = "running" THEN "killed" ELSE proc

\* wait_for expires with the child not completed: asyncio.TimeoutError inside
\* the loop.  Past the deadline the error leaves the loop and the handler of
\* convert_audio_to_video kills the child and awaits process.wait();
\* otherwise progress is logged and the loop sleeps one second.
SliceExpired(m) ==
    /\ h[m].pc = "waiting"
    /\ h[m].waitLeft = 0
    /\ h[m].returncode = <<>>
    /\ LET elapsed == h[m].elapsed IN
       SetH(m, IF elapsed >= settings.processing_timeout
               THEN [h[m] EXCEPT !.tripped = TRUE, !.pc = "reaping",
                                 !.proc = process_kill(@),
                                 !.outLinked = FALSE]
               ELSE IF elapsed - h[m].lastCheck >= CheckInterval
               THEN [h[m] EXCEPT !.progress = @ + 1, !.lastCheck = elapsed,
                                 !.pc = "sleeping", !.waitLeft = SleepStep]
               ELSE [h[m] EXCEPT !.pc = "sleeping", !.waitLeft = SleepStep], {})
    /\ UNCHANGED <<settings, fs, notes, today, calls, appended, received, cmdVars, stoVars, message, app>>

\* asyncio.sleep(1) is over and the child has not completed: next wait_for
SleepDone(m) ==
    /\ h[m].pc = "sleeping"
    /\ h[m].waitLeft = 0
    /\ h[m].returncode = <<>>
    /\ SetH(m, [h[m] EXCEPT !.pc = "waiting",
                            !.waitLeft = SliceTimeout(h[m].elapsed,
                                                      settings.processing_timeout)], {})
    /\ UNCHANGED <<settings, fs, notes, today, calls, appended, received, cmdVars, stoVars, message, app>>

\* process.wait() returns after the kill: the timeout FFmpegError is raised
Reaped(m) ==
    /\ h[m].pc = "reaping"
    /\ h[m].returncode # <<>>
    /\ SetH(m, AfterConvert(h[m],
                   ExceptDispatch(Raised("TimeoutError", "FFmpeg conversion timed out after {elapsed} seconds",
                                         <<h[m].elapsed>>),
                                  settings.processing_timeout)), {})
    /\ UNCHANGED <<settings, fs, notes, today, calls, appended, received, cmdVars, stoVars, message, app>>

(***************************************************************************)
(* Transcription, final notifications and cleanup.                         *)
(***************************************************************************)
\* the transcripts the service may return
Texts == {<<"t">>}
\* the ways the transcription request ends: a transport or HTTP-status
\* failure (aiohttp.ClientError), a body that response.json() refuses for its
\* content type (aiohttp.ContentTypeError, a ClientError), a JSON object
\* without 'text', a 'text' that is not a string (both ValueError), or a
\* transcript
TranscribeOutcomes == {"client_error", "not_json", "no_text", "text_not_str", "text"}

\* a break of transcribe_audio: every failure is reported as ClientError
transcribe_audio_AllClientError(oc) ==
    IF oc = "text" THEN OkResult
    ELSE Raised("ClientError", "Whisper API request failed", <<>>)

\* what transcribe_audio returns or raises once the request has ended
\* (transcription.py 66-86); its except clauses re-raise what they catch
transcribe_audio(oc) ==
    IF oc = "client_error"
    THEN Raised("ClientError", "Whisper API request failed", <<>>)
    ELSE IF oc = "not_json"
    THEN Raised("ClientError", "Attempt to decode JSON with unexpected mimetype", <<>>)
    ELSE IF oc = "no_text"
    THEN Raised("ValueError", "Invalid Whisper API response", <<>>)
    ELSE IF oc = "text_not_str"
    THEN Raised("ValueError", "Expected text to be str", <<>>)
    ELSE OkResult

\* a break of process_transcription: the note is written before the result
\* of the transcription is looked at
process_transcription_SaveFirst(nt, date, filename, res, text, fault) ==
    save_to_markdown(nt, date, filename, text, fault)

\* the notes after the steps of process_transcription that follow
\* transcribe_audio (transcription.py 195-198): save_to_markdown runs only
\* when a transcript was returned
process_transcription(nt, date, filename, res, text, fault) ==
    IF res.kind = "ok" THEN save_to_markdown(nt, date, filename, text, fault)
    ELSE nt

\* transcribe_audio returns or raises; on a transcript save_to_markdown runs
\* in the same step (it has no await), with or without an OSError
TranscribeReturn(m, oc, text, fault) ==
    /\ h[m].pc = "transcribing"
    /\ LET res == transcribe_audio(oc)
           e == Raised("OSError", "Failed to save transcript", <<>>)
       IN /\ notes' = process_transcription(notes, today, Att(h[m]).filename,
                                            res, text, fault)
          /\ IF res.kind # "ok"
             THEN /\ SetH(m, Catch([h[m] EXCEPT !.result = res],
                                   TranscriptionClause(res.kind)), {})
                  /\ appended' = appended
             ELSE IF save_raises(notes, today, fault)
             THEN /\ SetH(m, Catch([h[m] EXCEPT !.result = e],
                                   TranscriptionClause(e.kind)), {})
                  /\ appended' = appended
             ELSE /\ SetH(m, [h[m] EXCEPT !.pc = "edit", !.result = res], {})
                  /\ appended' = Append(appended, [call |-> m, date |-> today])
    /\ UNCHANGED <<settings, fs, today, calls, received, cmdVars, stoVars, message, app>>

\* await processing_msg.edit(...); on success the cleanup of bot.py 174-180
\* (video) or 228-233 (transcription) runs and the attachment has succeeded
Edit(m, oc) ==
    /\ h[m].pc = "edit"
    /\ IF oc = "ok"
       THEN LET f1 == cleanup_inbox_file(fs, InPath(h[m]))
                f2 == IF settings.bot_mode = "video" /\ settings.delete_on_success
                      THEN cleanup_output_file(f1, OutPath(h[m]), settings)
                      ELSE f1
            IN /\ fs' = f2
               /\ SetH(m, FinishAttachment([h[m] EXCEPT !.sent = Append(@, "edit")],
                                           "Succeeded"),
                       DOMAIN fs \ DOMAIN f2)
       ELSE /\ fs' = fs
            /\ SetH(m, Catch(h[m], ChatErrClass(oc)), {})
    /\ UNCHANGED <<settings, notes, today, calls, appended, received, cmdVars, stoVars, message, app>>

\* a break of the handlers: every except clause cleans the inbox
CleansInbox_Always(mode, class) == TRUE

\* the except clauses that end with cleanup_inbox_file: FFmpegError and
\* Exception in video mode, Exception in transcription mode; the
\* aiohttp.ClientError clauses do not
CleansInbox(mode, class) ==
    IF mode = "video" THEN class \in {"ffmpeg", "unexpected"}
    ELSE class = "unexpected"

\* await _send_error_message(...), then the rest of the except clause.  A
\* DiscordException of the reply is swallowed; any other exception leaves
\* the clause, the handler and on_message.
ErrReply(m, oc) ==
    /\ h[m].pc = "err_reply"
    /\ IF oc = "client"
       THEN /\ fs' = fs
            /\ SetH(m, [h[m] EXCEPT !.pc = "crashed",
                                    !.outcome = Append(@, "Failed")], {})
       ELSE LET f1 == IF CleansInbox(settings.bot_mode, h[m].err)
                      THEN cleanup_inbox_file(fs, InPath(h[m])) ELSE fs
                sent1 == IF oc = "ok" THEN Append(h[m].sent, h[m].err) ELSE h[m].sent
            IN /\ fs' = f1
               /\ SetH(m, FinishAttachment([h[m] EXCEPT !.sent = sent1], "Failed"),
                       DOMAIN fs \ DOMAIN f1)
    /\ UNCHANGED <<settings, notes, today, calls, appended, received, cmdVars, stoVars, message, app>>

\* midnight: datetime.now(), which only save_to_markdown reads, moves to the
\* next calendar date
NextDay ==
    /\ settings.bot_mode = "transcription"
    /\ today < MaxDays
    /\ today' = today + 1
    /\ UNCHANGED <<settings, fs, notes, h, calls, appended, received, cmdVars, stoVars, message, app>>

(***************************************************************************)
(* The coordinator: messages with one audio attachment each, one message   *)
(* after the other; files left by a message are there for the next one.    *)
(***************************************************************************)

Attachment(name) == [filename |-> name, size |-> 1]

Init ==
    /\ settings \in {[DefaultSettings EXCEPT !.bot_mode = md,
                                             !.delete_on_success = d,
                                             !.max_file_size = MaxBytes - 1,
                                             !.processing_timeout = BotTimeout] :
                        md \in BotModes, d \in BOOLEAN}
    /\ fs = [q \in {BackgroundImage} |-> 1]
    /\ BotIdle
    /\ CmdIdle
    /\ StoIdle

\* the steps of the coordinator on the attachments of a received message,
\* around the conversion and the transcription
AttachmentStep(m) ==
    \/ \E oc \in ChatOutcomes : Reply(m, oc)
    \/ \E oc \in {"ok", "http_error"} : DlConnect(m, oc)
    \/ DlChunk(m)
    \/ DlFail(m)
    \/ DlEnd(m)
    \/ \E oc \in TranscribeOutcomes, text \in Texts, fault \in SaveFaults :
          TranscribeReturn(m, oc, text, fault)
    \/ \E oc \in ChatOutcomes : Edit(m, oc)
    \/ \E oc \in ChatOutcomes : ErrReply(m, oc)

\* a message arrives, or the coordinator goes on with the one it handles
CoordinatorStep(m) ==
    \/ \E name \in BotNames : Receive(m, <<Attachment(name)>>)
    \/ AttachmentStep(m)

\* the steps of the encoder and of its supervision; with a timeout of at
\* most CheckInterval the first slice ends at the deadline and the loop never
\* sleeps
RunnerStep(m, errs) ==
    \/ \E oc \in LaunchOutcomes : Launch(m, oc)
    \/ ProcWrite(m)
    \/ \E code \in ExitCodes, err \in errs : ProcExit(m, code, err)
    \/ LoopObserve(m)
    \/ Completed(m)
    \/ SliceExpired(m)
    \/ Reaped(m)

\* one message after the other, handled by the first handler
Next ==
    \/ CoordinatorStep(1)
    \/ RunnerStep(1, {<<"e">>})
    \/ Tick
    \/ NextDay

Spec == Init /\ [][Next]_vars

(***************************************************************************)
(* One conversion under supervision, for every timeout up to MaxTimeout:   *)
(* the download of a.ogg has just ended.                                   *)
(***************************************************************************)
\* a handler whose download of `name` has written `size` bytes
Downloading(name, size) ==
    [IdleHandler EXCEPT !.pc = "dl_stream", !.atts = <<Attachment(name)>>,
                        !.idx = 1, !.sent = <<"reply">>, !.dlOff = size,
                        !.dlLinked = TRUE]

InitRunner ==
    /\ settings \in {[DefaultSettings EXCEPT !.max_file_size = MaxBytes,
                                             !.processing_timeout = t] :
                        t \in 1..MaxTimeout}
    /\ \E bg \in SUBSET {BackgroundImage}, old \in SUBSET {get_output_path(F_a_ogg)} :
          fs = [q \in {get_inbox_path(F_a_ogg)} \cup bg \cup old |-> 1]
    /\ notes = <<>>
    /\ today = 1
    /\ h = [m \in Msgs |-> IF m = 1 THEN Downloading(F_a_ogg, 1) ELSE IdleHandler]
    /\ calls = <<>>
    /\ appended = <<>>
    /\ received = 1
    /\ message = NoMessage
    /\ app = AppIdle
    /\ CmdIdle
    /\ StoIdle

NextRunner ==
    \/ DlEnd(1)
    \/ RunnerStep(1, StderrSamples)
    \/ SleepDone(1)
    \/ Tick

SpecRunner == InitRunner /\ [][NextRunner]_vars

\* convert_audio_to_video has returned or raised
ConvertEnded(hm) == hm.result.kind # "none"
TimeoutMsg == "FFmpeg conversion timed out after {timeout} seconds"

\* C2: when the supervisor finds the child still not completed with the
\* configured timeout elapsed, convert_audio_to_video ends with the timeout
\* FFmpegError, and when that failure is raised the child has been killed and
\* reaped; the child is never left running past the timeout
C2_TimeoutKillsChild ==
    \A m \in Msgs :
        LET hm == h[m] IN
        /\ hm.tripped =>
              \/ hm.pc = "reaping" /\ hm.proc # "running"
              \/ /\ hm.result.kind = "FFmpegError"
                 /\ hm.result.msg = TimeoutMsg
                 /\ hm.proc = "reaped"
        /\ (ConvertEnded(hm) /\ hm.result.msg = TimeoutMsg) =>
              hm.tripped /\ hm.proc = "reaped"
        /\ hm.proc = "running" => hm.elapsed <= settings.processing_timeout

\* C2 witness: a timeout of two slices and a sleep has tripped, the child was
\* killed (return code -9) and reaped, and the timeout failure was raised
C2_Witness ==
    /\ settings.processing_timeout = 2 * CheckInterval + SleepStep
    /\ h[1].tripped
    /\ h[1].pc = "err_reply"
    /\ h[1].result.msg = TimeoutMsg
    /\ h[1].returncode = <<KilledCode>>
    /\ h[1].proc = "reaped"
    /\ h[1].elapsed = settings.processing_timeout

\* C3: a conversion whose encoder exited with code 0 while the output file is
\* missing or empty ends with an FFmpegError, never with a normal return
C3_InvalidOutputFails ==
    \A m \in Msgs :
        LET hm == h[m]
            out == OutPath(hm)
        IN (/\ hm.idx > 0
            /\ ConvertEnded(hm)
            /\ hm.returncode = <<0>>
            /\ (out \notin DOMAIN fs \/ fs[out] = 0))
           => hm.result.kind = "FFmpegError"

\* C3 witness: exit code 0 with an empty output file was reported as failure
C3_Witness ==
    /\ ConvertEnded(h[1])
    /\ h[1].returncode = <<0>>
    /\ ~h[1].tripped
    /\ OutPath(h[1]) \in DOMAIN fs
    /\ fs[OutPath(h[1])] = 0
    /\ h[1].result.kind = "FFmpegError"
    /\ h[1].result.inner = "FFmpeg created empty output file"

\* C10: when the encoder completes with a nonzero exit code, the failure
\* handed to the caller has return_code equal to that exit code and stderr
\* equal to the decoded stderr of the encoder
C10_FailureCarriesCodeAndStderr ==
    \A m \in Msgs :
        LET hm == h[m] IN
        (/\ ConvertEnded(hm)
         /\ ~hm.tripped
         /\ hm.returncode # <<>>
         /\ hm.returncode # <<0>>)
        => /\ hm.result.kind = "FFmpegError"
           /\ hm.result.return_code = hm.returncode
           /\ hm.result.stderr = <<Decode(hm.stderr)>>

NotFoundMsg == "FFmpeg executable not found"

\* C12: a launch that does not find the encoder executable fails at once
\* with the FFmpegError that names the missing executable; a failure with
\* that message is raised only then: no child exists, no time has passed, no
\* output was opened or validated, and it carries no return code
C12_MissingExecutable ==
    /\ [](\A m \in Msgs :
            h[m].result.msg = NotFoundMsg =>
                /\ h[m].result.kind = "FFmpegError"
                /\ h[m].result.inner = ""
                /\ h[m].result.return_code = <<>>
                /\ h[m].proc = "none"
                /\ h[m].returncode = <<>>
                /\ h[m].elapsed = 0
                /\ ~h[m].outOpen
                /\ ~h[m].tripped)
    /\ [][\A m \in Msgs :
            Launch(m, "missing") =>
                /\ h'[m].result.msg = NotFoundMsg
                /\ h'[m].pc = "err_reply"
                /\ h'[m].err = "ffmpeg"
                /\ fs' = fs]_vars

\* C12 witness: the launch found no executable and the failure was raised
C12_Witness ==
    /\ h[1].pc = "err_reply"
    /\ h[1].err = "ffmpeg"
    /\ h[1].result.kind = "FFmpegError"
    /\ h[1].result.msg = NotFoundMsg
    /\ h[1].proc = "none"
    /\ OutPath(h[1]) \notin DOMAIN fs

(***************************************************************************)
(* Supervision with timers that may fire late: asyncio runs a timer        *)
(* callback no earlier than it is due, and later when the loop is busy.    *)
(***************************************************************************)
\* a second passes while the timer of a waiting or sleeping handler is due
\* and has not been run yet
LateTick(m) ==
    /\ Timed(h[m])
    /\ h[m].waitLeft = 0
    /\ h[m].returncode = <<>>
    /\ h[m].elapsed < settings.processing_timeout + MaxLate
    /\ SetH(m, [h[m] EXCEPT !.elapsed = @ + 1], {})
    /\ UNCHANGED <<settings, fs, notes, today, calls, appended, received, cmdVars, stoVars, message, app>>

NextRunnerLate ==
    \/ NextRunner
    \/ LateTick(1)

SpecRunnerLate == InitRunner /\ [][NextRunnerLate]_vars

\* C11: the timeout failure handed to the caller carries the elapsed time
\* measured when the deadline was found exceeded
C11_TimeoutCarriesElapsed ==
    \A m \in Msgs :
        (ConvertEnded(h[m]) /\ h[m].tripped) =>
            /\ h[m].result.kind = "FFmpegError"
            /\ h[m].result.msg_num = <<h[m].elapsed>>

(***************************************************************************)
(* Concurrent process_transcription calls: the downloads of NumMsgs        *)
(* messages have just ended.                                               *)
(***************************************************************************)
InitNotes ==
    /\ settings = [DefaultSettings EXCEPT !.bot_mode = "transcription",
                                          !.max_file_size = MaxBytes]
    /\ \E names \in [Msgs -> BotNames] :
          /\ fs = [q \in {get_inbox_path(names[m]) : m \in Msgs} |-> 1]
          /\ h = [m \in Msgs |-> Downloading(names[m], 1)]
    /\ notes = <<>>
    /\ today = 1
    /\ calls = <<>>
    /\ appended = <<>>
    /\ received = NumMsgs
    /\ message = NoMessage
    /\ app = AppIdle
    /\ CmdIdle
    /\ StoIdle

NextNotes ==
    \/ \E m \in Msgs : DlEnd(m)
    \/ \E m \in Msgs, oc \in TranscribeOutcomes, text \in Texts, fault \in SaveFaults :
          TranscribeReturn(m, oc, text, fault)
    \/ NextDay

SpecNotes == InitNotes /\ [][NextNotes]_vars

(***************************************************************************)
(* Attachments in flight together, video mode: the downloads of NumMsgs    *)
(* attachments are streaming; every chat call succeeds.                    *)
(***************************************************************************)
InitPair ==
    /\ settings \in {[DefaultSettings EXCEPT !.delete_on_success = d,
                                             !.max_file_size = MaxBytes,
                                             !.processing_timeout = BotTimeout] :
                        d \in BOOLEAN}
    /\ \E names \in [Msgs -> BotNames] :
          /\ fs = [q \in {get_inbox_path(names[m]) : m \in Msgs}
                         \cup {BackgroundImage} |-> 1]
          /\ h = [m \in Msgs |-> Downloading(names[m], 1)]
    /\ notes = <<>>
    /\ today = 1
    /\ calls = <<>>
    /\ appended = <<>>
    /\ received = NumMsgs
    /\ message = NoMessage
    /\ app = AppIdle
    /\ CmdIdle
    /\ StoIdle

PairStep(m) ==
    \/ DlEnd(m)
    \/ Launch(m, "ok")
    \/ ProcWrite(m)
    \/ \E code \in ExitCodes : ProcExit(m, code, <<>>)
    \/ LoopObserve(m)
    \/ Completed(m)
    \/ SliceExpired(m)
    \/ Reaped(m)
    \/ Edit(m, "ok")
    \/ ErrReply(m, "ok")

NextPair ==
    \/ \E m \in Msgs : PairStep(m)
    \/ Tick

SpecPair == InitPair /\ [][NextPair]_vars

(***************************************************************************)
(* The coordinator on a file system whose unlink can fail (a read-only     *)
(* directory, a file another process holds open on Windows).               *)
(***************************************************************************)
\* processing_msg.edit succeeds, then Path.unlink in cleanup_inbox_file raises
\* OSError inside the try block: the handler is in `except Exception`
EditCleanupFails(m) ==
    /\ h[m].pc = "edit"
    /\ Exists(fs, InPath(h[m]))
    /\ PathParent(InPath(h[m])) = InboxDir
    /\ SetH(m, Catch([h[m] EXCEPT !.sent = Append(@, "edit"),
                                  !.result = Raised("OSError", "Permission denied", <<>>)],
                     "unexpected"), {})
    /\ UNCHANGED <<settings, fs, notes, today, calls, appended, received, cmdVars, stoVars, message, app>>

NextFaulty ==
    \/ Next
    \/ EditCleanupFails(1)

SpecFaulty == Init /\ [][NextFaulty]_vars

(***************************************************************************)
(* One message with two audio attachments: on_message has called           *)
(* _process_audio_attachment for the first.                                *)
(***************************************************************************)
InitMulti ==
    /\ settings \in {[DefaultSettings EXCEPT !.bot_mode = md,
                                             !.max_file_size = MaxBytes - 1,
                                             !.processing_timeout = BotTimeout] :
                        md \in BotModes}
    /\ fs = [q \in {BackgroundImage} |-> 1]
    /\ notes = <<>>
    /\ today = 1
    /\ h = [m \in Msgs |->
              IF m = 1
              THEN StartAttachment([IdleHandler EXCEPT !.atts =
                       <<Attachment(F_a_ogg), Attachment(F_a_m4a)>>], 1)
              ELSE IdleHandler]
    /\ calls = <<>>
    /\ appended = <<>>
    /\ received = 1
    /\ message = NoMessage
    /\ app = AppIdle
    /\ CmdIdle
    /\ StoIdle

NextMulti ==
    \/ AttachmentStep(1)
    \/ RunnerStep(1, {<<"e">>})
    \/ Tick

SpecMulti == InitMulti /\ [][NextMulti]_vars

(***************************************************************************)
(* Properties of the coordinator and of the daily notes.                   *)
(***************************************************************************)
IsPrefix(a, b) == Len(a) <= Len(b) /\ SubSeq(b, 1, Len(a)) = a
LastOutcome(hm) == hm.outcome[Len(hm.outcome)]
\* the coordinator has finished with the attachment of handler m, with oc
Finished(m, oc) ==
    /\ h[m].pc = "done"
    /\ h[m].outcome # <<>>
    /\ LastOutcome(h[m]) = oc

\* C1: once the coordinator has finished with an attachment that ended in
\* Failed, no file exists at the inbox path of the attachment
C1_FailedLeavesNoInboxFile ==
    \A m \in Msgs : Finished(m, "Failed") => InPath(h[m]) \notin DOMAIN fs

\* C8: when a video-mode attachment has ended in Succeeded, its inbox copy
\* does not exist and its output video exists if and only if delete-on-success
\* is disabled
C8_SuccessCleanup ==
    \A m \in Msgs :
        (settings.bot_mode = "video" /\ Finished(m, "Succeeded")) =>
            /\ InPath(h[m]) \notin DOMAIN fs
            /\ (OutPath(h[m]) \in DOMAIN fs) <=> ~settings.delete_on_success
            /\ OutPath(h[m]) \in DOMAIN fs => PathParent(OutPath(h[m])) = OutputDir

\* C8 witness: a second conversion has succeeded with the policy enabled, the
\* inbox copy and the output video are gone
C8_Witness ==
    /\ settings.bot_mode = "video"
    /\ settings.delete_on_success
    /\ received = 2
    /\ Finished(1, "Succeeded")
    /\ h[1].sent = <<"reply", "edit">>
    /\ InPath(h[1]) \notin DOMAIN fs
    /\ OutPath(h[1]) \notin DOMAIN fs

\* C9: no step deletes, truncates or rewrites a daily note: every note that
\* exists before a step exists after it, with its earlier content as a prefix
C9_NotesAppendOnly ==
    [][\A d \in DOMAIN notes :
          d \in DOMAIN notes' /\ IsPrefix(notes[d], notes'[d])]_vars

\* C9 witness: in transcription mode a note that held a header and an entry
\* has gone through a failed and a finished attachment and holds them still
C9_Witness ==
    /\ settings.bot_mode = "transcription"
    /\ 1 \in DOMAIN notes
    /\ Len(notes[1]) = 2
    /\ notes[1][1].kind = "header"
    /\ notes[1][2].kind = "entry"
    /\ received = 2
    /\ h[1].outcome = <<"Failed">>
    /\ h[1].pc = "done"
    /\ calls = <<1, 1>>

\* the handler is in the aiohttp.ClientError clause because the download
\* failed: the reply was sent, no conversion was called and the file at the
\* inbox path would not have passed the size validation that precedes the
\* transcription
DownloadFailed(hm) ==
    /\ hm.pc = "err_reply"
    /\ hm.err = "download"
    /\ hm.sent = <<"reply">>
    /\ hm.result.kind = "none"
    /\ hm.proc = "none"
    /\ settings.bot_mode = "transcription" =>
          ~validate_file_size(fs, InPath(hm), settings)

\* C13: when the coordinator finishes an attachment whose download failed,
\* the attachment is Failed, the reply, if one was posted, is the network
\* error, and no file is left at the inbox path
C13_DownloadFailureCleansInbox ==
    [][\A m \in Msgs :
          (DownloadFailed(h[m]) /\ h'[m].pc = "done") =>
              /\ LastOutcome(h'[m]) = "Failed"
              /\ h'[m].sent \in {<<"reply">>, <<"reply", "download">>}
              /\ InPath(h[m]) \notin DOMAIN fs']_vars

\* the handler is in the FFmpegError clause after a conversion whose
\* encoder ran (it exited or was killed) and had opened its output file
ConversionFailed(hm) ==
    /\ hm.pc = "err_reply"
    /\ hm.err = "ffmpeg"
    /\ hm.result.kind = "FFmpegError"
    /\ hm.proc = "reaped"
    /\ hm.outOpen

\* C14: when the coordinator finishes an attachment whose conversion failed
\* (nonzero exit, timeout with the encoder killed, invalid output), no file
\* of that job is left at its output path
C14_FailedConversionLeavesNoOutput ==
    [][\A m \in Msgs :
          (ConversionFailed(h[m]) /\ h'[m].pc = "done") =>
              /\ LastOutcome(h'[m]) = "Failed"
              /\ OutPath(h[m]) \notin DOMAIN fs']_vars

\* handler m takes the step (the link flags are moved by the others' steps)
Moved(m) ==
    [h'[m] EXCEPT !.dlLinked = FALSE, !.outLinked = FALSE]
        # [h[m] EXCEPT !.dlLinked = FALSE, !.outLinked = FALSE]
\* the step creates, removes or changes the file at path p
Touched(p) ==
    \/ (p \in DOMAIN fs) # (p \in DOMAIN fs')
    \/ p \in DOMAIN fs /\ p \in DOMAIN fs' /\ fs[p] # fs'[p]

\* C15: a step of one in-flight attachment changes the file at the inbox
\* path or the output path of another in-flight attachment only if the two
\* have the same filename
C15_OnlySameNameCollides ==
    [][\A m, k \in Msgs :
          (/\ m # k
           /\ InFlight(h[m])
           /\ InFlight(h[k])
           /\ Moved(m)
           /\ ~Moved(k)
           /\ Touched(InPath(h[k])) \/ Touched(OutPath(h[k])))
          => Att(h[m]).filename = Att(h[k]).filename]_vars

\* the failures of transcribe_audio: the audio file cannot be read, the
\* request fails, the response is invalid
TranscribeFailures ==
    {"No such file or directory", "Whisper API request failed",
     "Attempt to decode JSON with unexpected mimetype",
     "Invalid Whisper API response", "Expected text to be str"}

\* C16: a process_transcription call whose transcribe_audio fails raises and
\* leaves every note as it was; a note is created or modified only by a call
\* whose transcription has returned a text
C16_NoNoteWithoutTranscript ==
    [][/\ \A m \in Msgs :
            (/\ h[m].pc \in {"dl_stream", "transcribing"}
             /\ h'[m].result.msg \in TranscribeFailures)
            => /\ h'[m].pc = "err_reply"
               /\ notes' = notes
               /\ appended' = appended
       /\ notes' # notes =>
            \E m \in Msgs :
                /\ h[m].pc = "transcribing"
                /\ h'[m].result.kind \in {"ok", "OSError"}
                /\ h'[m].result.msg \notin TranscribeFailures]_vars

\* C16 witness: one call has appended its entry and the other has failed
\* with an invalid response; the note holds the header and the one entry
C16_Witness ==
    /\ \E m, k \in Msgs :
          /\ h[m].pc = "err_reply"
          /\ h[m].result.kind = "ValueError"
          /\ h[k].pc = "edit"
          /\ appended = <<[call |-> k, date |-> 1]>>
    /\ today = 1
    /\ Len(calls) = NumMsgs
    /\ Len(notes[1]) = 2

C18_TranscriptionErrorReply ==
    \A m \in Msgs :
        (/\ settings.bot_mode = "transcription"
         /\ h[m].pc = "err_reply"
         /\ h[m].result.msg \in TranscribeFailures)
        => /\ h[m].err # "download"
           /\ h[m].err = TranscriptionClause("ValueError")

\* C19: a failure at any stage of one attachment is contained: no exception
\* leaves on_message, and when the handler is through with a message every
\* audio attachment of the message has been processed
C19_FailureContained ==
    \A m \in Msgs :
        /\ h[m].pc # "crashed"
        /\ (h[m].atts # <<>> /\ ~InFlight(h[m])) =>
              Len(h[m].outcome) = Len(h[m].atts)

\* the encoder or the transcription call of the attachment has been started
\* and has not ended
StageRunning(hm) ==
    \/ hm.pc \in {"launch", "waiting", "sleeping", "reaping", "transcribing"}
    \/ hm.proc \in {"running", "exited", "killed"}

\* C20: while the encoder or the transcription call of an attachment is
\* running, its download has ended and passed the size validation, and its
\* inbox copy is in place; no step removes the inbox copy while it runs
C20_StagesSequential ==
    /\ [](\A m \in Msgs :
            StageRunning(h[m]) =>
                /\ ~h[m].dlLinked
                /\ InPath(h[m]) \in DOMAIN fs
                /\ fs[InPath(h[m])] = h[m].dlOff
                /\ fs[InPath(h[m])] <= settings.max_file_size
                /\ h[m].pc \in {"launch", "waiting", "sleeping", "reaping",
                                "transcribing"})
    /\ [][\A m \in Msgs :
            (StageRunning(h[m]) /\ InPath(h[m]) \in DOMAIN fs) =>
                InPath(h[m]) \in DOMAIN fs']_vars

\* C20 witness: the encoder is running and writing, the inbox copy is whole
C20_Witness ==
    /\ h[1].pc = "waiting"
    /\ h[1].proc = "running"
    /\ h[1].outOff = 1
    /\ h[1].dlOff = 1
    /\ received = 2
    /\ fs[InPath(h[1])] = 1

\* the notifications that report a failure
(***************************************************************************)
(* Messages as Discord delivers them: any author, any channel, attachments *)
(* with a declared content type and size.                                  *)
(***************************************************************************)
AudioPrefix == <<"a", "u", "d", "i", "o", "/">>
CT_audio_ogg == <<"a", "u", "d", "i", "o", "/", "o", "g", "g">>
CT_video_mp4 == <<"v", "i", "d", "e", "o", "/", "m", "p", "4">>
\* Attachment.content_type: a MIME type, or None (<<>>)
ContentTypes == {<<>>, CT_audio_ogg, CT_video_mp4}

\* Attachment as discord.py hands it over
RawAttachment(name, size, ct) == [filename |-> name, size |-> size, content_type |-> ct]

\* the attachments messages are built from: audio within the limit is
\* named a.ogg, every other attachment a.m4a
RawAttachments(st) ==
    {RawAttachment(F_a_ogg, st.max_file_size, CT_audio_ogg),
     RawAttachment(F_a_m4a, st.max_file_size + 1, CT_audio_ogg)}
    \cup {RawAttachment(F_a_m4a, st.max_file_size, ct) : ct \in ContentTypes \ {CT_audio_ogg}}

\* messages without attachment, with one and with two
Messages(st) ==
    [author_is_bot : BOOLEAN, channel_id : {MonitoredChannel, OtherChannel},
     attachments : {<<>>} \cup {<<a>> : a \in RawAttachments(st)}
                          \cup {<<a, b>> : a, b \in RawAttachments(st)}]

\* _get_audio_attachments with the size check rejecting the limit itself
get_audio_attachments_StrictSize(attachments, st) ==
    SelectSeq(attachments,
              LAMBDA a : /\ a.content_type # <<>>
                         /\ IsPrefix(AudioPrefix, a.content_type)
                         /\ ~(a.size >= st.max_file_size))

\* DiscordBot._get_audio_attachments
get_audio_attachments(attachments, st) ==
    SelectSeq(attachments,
              LAMBDA a : /\ a.content_type # <<>>
                         /\ IsPrefix(AudioPrefix, a.content_type)
                         /\ ~(a.size > st.max_file_size))

\* on_message without the channel check
on_message_AnyChannel(msg, st) ==
    IF msg.author_is_bot THEN <<>>
    ELSE get_audio_attachments(msg.attachments, st)

\* DiscordBot.on_message up to its loop: the attachments it goes on to
\* process, <<>> where it returns early
on_message(msg, st) ==
    IF msg.author_is_bot THEN <<>>
    ELSE IF msg.channel_id # st.channel_id THEN <<>>
    ELSE get_audio_attachments(msg.attachments, st)

\* the client calls on_message(msg)
OnMessage(m, msg) ==
    /\ ~InFlight(h[m])
    /\ received < MaxMsgs
    /\ received' = received + 1
    /\ message' = msg
    /\ LET audio == on_message(msg, settings) IN
       IF audio = <<>>
       THEN h' = h
       ELSE SetH(m, StartAttachment([IdleHandler EXCEPT !.atts = audio], 1), {})
    /\ UNCHANGED <<settings, fs, notes, today, calls, appended, cmdVars, stoVars, app>>

NextMessage ==
    \/ \E msg \in Messages(settings) : OnMessage(1, msg)
    \/ Reply(1, "ok")
    \/ DlConnect(1, "ok")
    \/ DlChunk(1)
    \/ PairStep(1)
    \/ \E text \in Texts : TranscribeReturn(1, "text", text, "ok")
    \/ Tick

SpecMessage == Init /\ [][NextMessage]_vars

\* the spec's criterion for an attachment that is skipped
Skipped(a, st) ==
    \/ a.content_type = <<>>
    \/ ~IsPrefix(AudioPrefix, a.content_type)
    \/ a.size > st.max_file_size

\* on_message has just been called
Delivered == received' = received + 1

\* C23: an attachment whose content type is absent or does not start with
\* "audio/", or whose declared size exceeds the limit, is skipped: no handler
\* ever works on it, its file never appears in the inbox, and the message is
\* processed as if it held only the other attachments, in order; an audio
\* attachment of exactly the limit is among them
C23_SkippedSilently ==
    /\ [](/\ \A m \in Msgs : \A i \in 1..Len(h[m].atts) : ~Skipped(h[m].atts[i], settings)
          /\ \A a \in RawAttachments(settings) :
                Skipped(a, settings) => get_inbox_path(a.filename) \notin DOMAIN fs)
    /\ [][(Delivered /\ ~message'.author_is_bot /\ message'.channel_id = settings.channel_id)
          => LET kept == SelectSeq(message'.attachments,
                                   LAMBDA a : ~Skipped(a, settings))
             IN IF kept = <<>>
                THEN UNCHANGED <<h, fs, notes, calls, appended>>
                ELSE /\ h'[1].atts = kept
                     /\ h'[1].idx = 1
                     /\ h'[1].sent = <<>>
                     /\ UNCHANGED <<fs, notes, calls, appended>>]_vars

C23_Witness ==
    /\ Len(message.attachments) = 2
    /\ message.attachments[1].content_type = CT_video_mp4
    /\ message.attachments[2].size = settings.max_file_size
    /\ h[1].pc = "done"
    /\ h[1].atts = <<message.attachments[2]>>
    /\ h[1].sent = <<"reply", "edit">>

\* C24: a message the bot itself wrote, or a message in another channel,
\* causes nothing: no reply, no file, no note, no handler state
C24_IgnoredMessages ==
    [][(Delivered /\ (message'.author_is_bot \/ message'.channel_id # settings.channel_id))
       => UNCHANGED <<h, fs, notes, calls, appended>>]_vars

C24_Witness ==
    /\ received = 1
    /\ ~message.author_is_bot
    /\ message.channel_id = OtherChannel
    /\ \E i \in 1..Len(message.attachments) : ~Skipped(message.attachments[i], settings)
    /\ h[1] = IdleHandler
    /\ DOMAIN fs = {BackgroundImage}

ErrorReplies == {"download", "ffmpeg", "unexpected"}

\* C21: the notifications of an attachment never hold both the success edit
\* and an error reply, and hold at most one final status after the initial
\* reply
C21_OneFinalStatus ==
    \A m \in Msgs :
        LET sent == h[m].sent IN
        /\ ~(\E i, j \in 1..Len(sent) : sent[i] = "edit" /\ sent[j] \in ErrorReplies)
        /\ Cardinality({i \in 1..Len(sent) : sent[i] \in ErrorReplies \cup {"edit"}}) <= 1

\* C22: on a failure path that removes the inbox copy, the copy is removed
\* before the error reply is sent: a step that sends an error reply starts
\* with the inbox copy already gone
C22_CleanupBeforeReport ==
    [][\A m \in Msgs :
          (/\ h[m].pc = "err_reply"
           /\ h'[m].pc = "done"
           /\ h'[m].sent = Append(h[m].sent, h[m].err)
           /\ CleansInbox(settings.bot_mode, h[m].err))
          => InPath(h[m]) \notin DOMAIN fs]_vars

\* the filenames of the entries of the note of date d, in file order
NoteEntries(d) ==
    LET es == SelectSeq(notes[d], LAMBDA b : b.kind = "entry")
    IN [i \in 1..Len(es) |-> es[i].filename]
\* the filename process_transcription was called with by handler m
CallFilename(m) == Att(h[m]).filename
\* the filenames of the successful calls on date d, in the order the calls
\* were made
SucceededInCallOrder(d) ==
    LET ok == {a.call : a \in {appended[i] : i \in
                   {j \in 1..Len(appended) : appended[j].date = d}}}
        cs == SelectSeq(calls, LAMBDA m : m \in ok)
    IN [i \in 1..Len(cs) |-> CallFilename(cs[i])]
\* the filenames of the successful calls on date d, in the order in which
\* the calls appended
SucceededInAppendOrder(d) ==
    LET as == SelectSeq(appended, LAMBDA a : a.date = d)
    IN [i \in 1..Len(as) |-> CallFilename(as[i].call)]
NotesGrow ==
    \A d \in DOMAIN notes : d \in DOMAIN notes' /\ IsPrefix(notes[d], notes'[d])
DatesOfNotes == 1..MaxDays

\* C6 (as stated): a note that holds an entry starts with the template header
\* and holds the header exactly once, also after calls that failed part-way
C6_HeaderExactlyOnce ==
    \A d \in DOMAIN notes :
        (\E i \in 1..Len(notes[d]) : notes[d][i].kind = "entry") =>
            /\ notes[d][1].kind = "header"
            /\ Cardinality({i \in 1..Len(notes[d]) : notes[d][i].kind = "header"}) = 1

\* C7 (as stated): the note of a date holds one entry per successful call on
\* that date, in the order the calls were made, and every append extends it
C7_EntriesInCallOrder ==
    /\ [](\A d \in DatesOfNotes :
            IF d \in DOMAIN notes THEN NoteEntries(d) = SucceededInCallOrder(d)
            ELSE SucceededInCallOrder(d) = <<>>)
    /\ [][NotesGrow]_vars

\* C7 (amended): the note of a date holds one entry per successful call on
\* that date, in the order in which the calls appended, that is in the order
\* their transcriptions completed, and every append extends the note
C7_EntriesInAppendOrder ==
    /\ [](\A d \in DatesOfNotes :
            IF d \in DOMAIN notes THEN NoteEntries(d) = SucceededInAppendOrder(d)
            ELSE SucceededInAppendOrder(d) = <<>>)
    /\ [][NotesGrow]_vars

\* C7 witness: every call has been made, the call made second appended
\* first, and the note holds the two entries in append order
C7_Witness ==
    /\ Len(calls) = NumMsgs
    /\ calls[1] = 1
    /\ calls[2] = 2
    /\ Len(appended) = 2
    /\ appended[1] = [call |-> 2, date |-> 1]
    /\ appended[2] = [call |-> 1, date |-> 1]
    /\ CallFilename(1) = F_a_ogg
    /\ CallFilename(2) = F_a_m4a
    /\ NoteEntries(1) = <<F_a_m4a, F_a_ogg>>

(***************************************************************************)
(* The cleanup operations on arbitrary paths.                              *)
(***************************************************************************)
N_a == <<"a">>
N_sub == <<"s", "u", "b">>
N_tmp == <<"t", "m", "p">>
N_a_mp4 == <<"a", ".", "m", "p", "4">>

P_inbox_a == InboxDir \o <<N_a>>
P_inbox_sub_a == InboxDir \o <<N_sub, N_a>>
P_out_a == OutputDir \o <<N_a_mp4>>
P_out_sub_a == OutputDir \o <<N_sub, N_a_mp4>>
P_work_a == WorkDir \o <<N_a>>
P_tmp_a == <<ROOT, N_tmp, N_a>>

\* regular files that may exist, inside and outside the managed directories
StoPaths ==
    {P_inbox_a, P_inbox_sub_a, P_out_a, P_out_sub_a, P_work_a, P_tmp_a,
     BackgroundImage}

\* Path.unlink() raises when the path is not a regular file
unlink_raises(f, p) == p \notin DOMAIN f

InitStorage ==
    /\ settings \in {[DefaultSettings EXCEPT !.delete_on_success = d] : d \in BOOLEAN}
    /\ \E S \in SUBSET StoPaths : fs = [q \in S |-> 1]
    /\ StoIdle
    /\ CmdIdle
    /\ BotIdle

\* StorageManager.cleanup_inbox_file(p)
CleanupInbox(p) ==
    /\ stoBefore' = fs
    /\ fs' = cleanup_inbox_file(fs, p)
    /\ stoCall' = [op |-> "inbox", path |-> p,
                   raised |-> /\ Exists(fs, p)
                              /\ PathParent(p) = InboxDir
                              /\ unlink_raises(fs, p)]
    /\ UNCHANGED <<settings, cmdVars, botVars>>

\* StorageManager.cleanup_output_file(p)
CleanupOutput(p) ==
    /\ stoBefore' = fs
    /\ fs' = cleanup_output_file(fs, p, settings)
    /\ stoCall' = [op |-> "output", path |-> p,
                   raised |-> /\ settings.delete_on_success
                              /\ Exists(fs, p)
                              /\ PathParent(p) = OutputDir
                              /\ unlink_raises(fs, p)]
    /\ UNCHANGED <<settings, cmdVars, botVars>>

NextStorage ==
    \/ \E p \in StoPaths \cup Dirs : CleanupInbox(p)
    \/ \E p \in StoPaths \cup Dirs : CleanupOutput(p)

SpecStorage == InitStorage /\ [][NextStorage]_vars

\* the files f without the path p
Without(f, p) == [q \in DOMAIN f \ {p} |-> f[q]]

\* C5: cleanup_inbox_file(path) removes the file if and only if it exists and
\* its parent is exactly the inbox root; cleanup_output_file(path) removes it
\* if and only if delete-on-success is enabled, it exists and its parent is
\* exactly the output root; in every other case nothing changes on the
\* filesystem, and no call raises
C5_CleanupGuard ==
    LET p == stoCall.path
        existed == p \in DOMAIN stoBefore
        removeInbox == existed /\ PathParent(p) = InboxDir
        removeOutput == /\ settings.delete_on_success
                        /\ existed
                        /\ PathParent(p) = OutputDir
    IN /\ stoCall.op = "inbox" =>
            /\ fs = (IF removeInbox THEN Without(stoBefore, p) ELSE stoBefore)
            /\ ~stoCall.raised
       /\ stoCall.op = "output" =>
            /\ fs = (IF removeOutput THEN Without(stoBefore, p) ELSE stoBefore)
            /\ ~stoCall.raised

\* C5 witness: an inbox cleanup was asked to delete an existing file outside
\* the inbox, next to an existing inbox file, and left both in place
C5_Witness ==
    /\ stoCall.op = "inbox"
    /\ stoCall.path = P_tmp_a
    /\ P_tmp_a \in DOMAIN stoBefore
    /\ P_inbox_a \in DOMAIN stoBefore
    /\ P_tmp_a \in DOMAIN fs
    /\ P_inbox_a \in DOMAIN fs

(***************************************************************************)
(* Command construction on every input filename.                           *)
(***************************************************************************)
SampleNames ==
    { <<"v", ".", "a", "a", "c">>, <<"v", ".", "A", "A", "C">>,
      <<"v", ".", "m", "p", "3">>, <<"v", ".", "o", "g", "g">>,
      <<"v", "o", "i", "c", "e", ".", "m", "4", "a">>,
      <<"v", ".", "m", "4", "a", ".", "o", "g", "g">>,
      <<"v", ".", "t", "a", "r", ".", "M", "4", "A">> }

CmdNames == TextsUpTo(MaxNameLen) \cup SampleNames

InitCmd ==
    /\ settings \in {[DefaultSettings EXCEPT !.audio_bitrate = b] : b \in Bitrates}
    /\ fs = <<>>
    /\ cmdName \in CmdNames
    /\ cmd = <<>>
    /\ StoIdle
    /\ BotIdle

\* FFmpegRunner.build_command on the staged paths of cmdName
BuildCommand ==
    /\ cmd = <<>>
    /\ cmd' = build_command(get_inbox_path(cmdName), get_output_path(cmdName),
                            settings.audio_bitrate)
    /\ UNCHANGED <<settings, fs, cmdName, stoVars, botVars>>

NextCmd == BuildCommand

SpecCmd == InitCmd /\ [][NextCmd]_vars

\* the tokens of the command
HasToken(c, t) == \E i \in 1..Len(c) : c[i] = t
\* the token after the first occurrence of flag t, <<>> when there is none
ArgOf(c, t) ==
    IF \E i \in 1..(Len(c) - 1) : c[i] = t
    THEN c[(CHOOSE i \in 1..(Len(c) - 1) : c[i] = t /\ \A j \in 1..(i - 1) : c[j] # t) + 1]
    ELSE <<>>

\* the extension of a filename read off its characters: the text from the last
\* dot of the last path component, when that dot is neither first nor last
ExtensionOf(name) ==
    LET parts == SplitParts(name, 1, <<>>)
        last == IF Len(parts) = 0 THEN N_inbox ELSE parts[Len(parts)]
        dots == {i \in 1..Len(last) : last[i] = "."}
        d == IF dots = {} THEN 0 ELSE CHOOSE i \in dots : \A j \in dots : j <= i
    IN IF d > 1 /\ d < Len(last) THEN [i \in 1..(Len(last) - d + 1) |-> last[d + i - 1]]
       ELSE <<>>

\* C4: the bitrate flag '-b:a' (followed by '<b>k') is in the command exactly
\* when the audio codec argument is 'aac', and the command has '-c:a copy'
\* without any '-b:a' exactly when the extension of the input filename, in
\* lower case, is .aac or .m4a
C4_BitrateTracksCodec ==
    cmd # <<>> =>
        LET b == settings.audio_bitrate
            hasRate == HasToken(cmd, T_ba)
            codec == ArgOf(cmd, T_ca)
            copyExt == Lower(ExtensionOf(cmdName)) \in {Ext_aac, Ext_m4a}
        IN /\ hasRate <=> (codec = T_aac)
           /\ hasRate => ArgOf(cmd, T_ba) = IntToText(b) \o <<"k">>
           /\ (codec = T_copy /\ ~hasRate) <=> copyExt
           /\ codec \in {T_copy, T_aac}

\* C4 witnesses: a copy command for an upper-case extension, and a re-encode
C4_Witness ==
    /\ cmd # <<>>
    /\ ArgOf(cmd, T_ca) = T_copy
    /\ ~HasToken(cmd, T_ba)
    /\ cmdName = <<"a", ".", "M", "4", "a">>

\* the shape of the output path derived from cmdName, once the command that
\* carries it has been built
OutputPathShape ==
    LET out == get_output_path(cmdName) IN
    /\ cmd[Len(cmd)] = PathStr(out)
    /\ PathParent(out) = OutputDir
    /\ PathSuffix(out) = <<".", "m", "p", "4">>
    /\ PathStem(out) = PathStem(ParsePath(cmdName))

\* C25 as stated: for every input filename the output path lies directly
\* under the output root, has the suffix ".mp4" and the stem of the input
C25_OutputPathEveryName ==
    cmd # <<>> => OutputPathShape

\* C25: for every input filename that names something (its final path
\* component is not empty), with or without an extension, the output path
\* lies directly under the output root, has the suffix ".mp4" and the stem
\* of the input
C25_OutputPathShape ==
    (cmd # <<>> /\ PathName(ParsePath(cmdName)) # <<>>) => OutputPathShape

\* a name without extension
C25_Witness ==
    /\ cmd # <<>>
    /\ cmdName = <<"m", "4", "a">>
    /\ get_output_path(cmdName) = OutputDir \o <<<<"m", "4", "a", ".", "m", "p", "4">>>>

(***************************************************************************)
(* StorageManager.validate_file_size on files of every size around the     *)
(* limit, on missing files and on directories.                             *)
(***************************************************************************)
ValPaths == {P_inbox_a, P_out_a}

InitValidate ==
    /\ settings \in {[DefaultSettings EXCEPT !.max_file_size = n] : n \in 1..MaxBytes}
    /\ \E S \in SUBSET ValPaths : fs \in [S -> 0..(MaxBytes + 1)]
    /\ StoIdle
    /\ CmdIdle
    /\ BotIdle

\* StorageManager.validate_file_size(p): the call returns `result`
ValidateSize(p) ==
    /\ stoBefore' = fs
    /\ stoCall' = [op |-> "validate", path |-> p, raised |-> FALSE,
                   result |-> validate_file_size(fs, p, settings)]
    /\ UNCHANGED <<settings, fs, cmdVars, botVars>>

NextValidate == \E p \in ValPaths \cup Dirs : ValidateSize(p)

SpecValidate == InitValidate /\ [][NextValidate]_vars

\* C26: validate_file_size(path) returns true exactly when path is an
\* existing regular file of at most max_file_size bytes; for a missing file
\* and for a directory it returns false; it raises nothing
C26_ValidateFileSize ==
    stoCall.op = "validate" =>
        LET p == stoCall.path IN
        /\ ~stoCall.raised
        /\ stoCall.result <=> (p \in DOMAIN stoBefore /\ stoBefore[p] <= settings.max_file_size)
        /\ p \in Dirs => ~stoCall.result
        /\ p \notin DOMAIN stoBefore => ~stoCall.result

\* a file of exactly the limit is valid
C26_Witness ==
    /\ stoCall.op = "validate"
    /\ stoCall.path \in DOMAIN fs
    /\ fs[stoCall.path] = settings.max_file_size
    /\ stoCall.result

(***************************************************************************)
(* on_ready: the check of the encoder installation                         *)
(* (FFmpegRunner.validate_ffmpeg_installation), "ffmpeg -version" under a  *)
(* fixed timeout.                                                          *)
(***************************************************************************)
\* timeout of the wait_for around communicate(), in seconds
ProbeTimeout == 10

\* how the try block of validate_ffmpeg_installation ends
ProbeEndings == {"returned", "timeout", "missing", "oserror"}

\* validate_ffmpeg_installation returning true whenever the child has ended
validate_ffmpeg_installation_AnyExit(ending, returncode) ==
    ending = "returned"

\* FFmpegRunner.validate_ffmpeg_installation: its return value
validate_ffmpeg_installation(ending, returncode) ==
    CASE ending = "returned" -> returncode = <<0>>
      [] ending \in {"timeout", "missing"} -> FALSE
      [] OTHER -> FALSE

\* validate_ffmpeg_installation has returned `valid`; on_ready logs it
ProbeReturn(hm, ending) ==
    [hm EXCEPT !.pc = "ready", !.err = ending,
               !.outcome = <<validate_ffmpeg_installation(ending, hm.returncode)>>]

\* DiscordBot.on_ready: in video mode the version query is launched
OnReady(oc) ==
    /\ h[1].pc = "idle"
    /\ SetH(1, IF settings.bot_mode # "video"
                THEN [h[1] EXCEPT !.pc = "ready"]
                ELSE IF oc = "ok"
                THEN [h[1] EXCEPT !.pc = "probing", !.proc = "running",
                                  !.elapsed = 0, !.waitLeft = ProbeTimeout]
                ELSE ProbeReturn(h[1], oc), {})
    /\ UNCHANGED <<settings, fs, notes, today, calls, appended, received, cmdVars, stoVars, message, app>>

\* one second passes while wait_for waits
ProbeTick ==
    /\ h[1].pc = "probing"
    /\ h[1].waitLeft > 0
    /\ SetH(1, [h[1] EXCEPT !.elapsed = @ + 1, !.waitLeft = @ - 1], {})
    /\ UNCHANGED <<settings, fs, notes, today, calls, appended, received, cmdVars, stoVars, message, app>>

\* communicate() returns inside wait_for
ProbeCompleted ==
    /\ h[1].pc = "probing"
    /\ h[1].returncode # <<>>
    /\ SetH(1, ProbeReturn(h[1], "returned"), {})
    /\ UNCHANGED <<settings, fs, notes, today, calls, appended, received, cmdVars, stoVars, message, app>>

\* wait_for raises TimeoutError
ProbeExpired ==
    /\ h[1].pc = "probing"
    /\ h[1].waitLeft = 0
    /\ h[1].returncode = <<>>
    /\ SetH(1, ProbeReturn(h[1], "timeout"), {})
    /\ UNCHANGED <<settings, fs, notes, today, calls, appended, received, cmdVars, stoVars, message, app>>

NextProbe ==
    \/ \E oc \in LaunchOutcomes : OnReady(oc)
    \/ ProbeTick
    \/ \E code \in ExitCodes : ProcExit(1, code, <<>>)
    \/ LoopObserve(1)
    \/ ProbeCompleted
    \/ ProbeExpired

SpecProbe == Init /\ [][NextProbe]_vars

\* C27: validate_ffmpeg_installation always returns a boolean (it raises
\* nothing); it returns true exactly when the version query was launched
\* and its exit with code 0 was seen within the 10 second timeout, and false
\* for a missing binary, a nonzero exit, a timeout and any other error
C27_ValidateInstallation ==
    (h[1].pc = "ready" /\ settings.bot_mode = "video") =>
        /\ Len(h[1].outcome) = 1
        /\ h[1].outcome[1] \in BOOLEAN
        /\ h[1].outcome[1] <=> /\ h[1].err = "returned"
                               /\ h[1].returncode = <<0>>
                               /\ h[1].elapsed <= ProbeTimeout
        /\ h[1].err \in {"missing", "oserror", "timeout"} => ~h[1].outcome[1]
        /\ (h[1].returncode # <<>> /\ h[1].returncode # <<0>>) => ~h[1].outcome[1]

\* the query ended with code 0 in the last second of the timeout
C27_Witness ==
    /\ h[1].pc = "ready"
    /\ h[1].elapsed = ProbeTimeout
    /\ h[1].returncode = <<0>>
    /\ h[1].outcome = <<TRUE>>

(***************************************************************************)
(* The header of a daily note (TranscriptionHandler._generate_daily_       *)
(* template): dates as datetime keeps them (proleptic Gregorian ordinals,  *)
(* 0001-01-01 = 1, a Monday), ISO weeks as date.isocalendar computes them, *)
(* and the week-navigation and day-list lines as text.  The glyphs         *)
(* U+276E and U+276F are written "U+276E" and "U+276F".                    *)
(***************************************************************************)
\* the dates covered: 1 January FirstYear .. 31 December LastYear
FirstYear == 1999
LastYear == 2101

is_leap(y) == y % 4 = 0 /\ (y % 100 # 0 \/ y % 400 = 0)
days_before_year(y) ==
    LET k == y - 1 IN k * 365 + k \div 4 - k \div 100 + k \div 400
DaysInMonth == <<31, 28, 31, 30, 31, 30, 31, 31, 30, 31, 30, 31>>
DaysBeforeMonth == <<0, 31, 59, 90, 120, 151, 181, 212, 243, 273, 304, 334>>
days_before_month(y, m) ==
    DaysBeforeMonth[m] + (IF m > 2 /\ is_leap(y) THEN 1 ELSE 0)
\* date(y, m, d).toordinal()
ymd2ord(y, m, d) == days_before_year(y) + days_before_month(y, m) + d

\* date.fromordinal(ord) as <<year, month, day>>
ord2ymd(ord) ==
    LET n0 == ord - 1
        n400 == n0 \div 146097
        r400 == n0 % 146097
        n100 == r400 \div 36524
        r100 == r400 % 36524
        n4 == r100 \div 1461
        r4 == r100 % 1461
        n1 == r4 \div 365
        n == r4 % 365
        year == n400 * 400 + 1 + n100 * 100 + n4 * 4 + n1
        leapyear == n1 = 3 /\ (n4 # 24 \/ n100 = 3)
        month0 == (n + 50) \div 32
        preceding0 == DaysBeforeMonth[month0]
                      + (IF month0 > 2 /\ leapyear THEN 1 ELSE 0)
        month == IF preceding0 > n THEN month0 - 1 ELSE month0
        preceding == IF preceding0 > n
                     THEN preceding0 - (DaysInMonth[month]
                                        + (IF month = 2 /\ leapyear THEN 1 ELSE 0))
                     ELSE preceding0
    IN IF n1 = 4 \/ n100 = 4 THEN <<year - 1, 12, 31>>
       ELSE <<year, month, n - preceding + 1>>

\* date.isoweekday(): Monday is 1, Sunday is 7
isoweekday(ord) == IF ord % 7 = 0 THEN 7 ELSE ord % 7

\* the ordinal of the Monday of ISO week 1 of `year`
isoweek1monday(year) ==
    LET firstday == ymd2ord(year, 1, 1)
        firstweekday == (firstday + 6) % 7
        week1monday == firstday - firstweekday
    IN IF firstweekday > 3 THEN week1monday + 7 ELSE week1monday

\* isocalendar naming the calendar year of the date
isocalendar_CalendarYear(ord) ==
    LET year == ord2ymd(ord)[1]
        week == (ord - isoweek1monday(year)) \div 7
    IN IF week < 0
       THEN <<year, (ord - isoweek1monday(year - 1)) \div 7 + 1, isoweekday(ord)>>
       ELSE IF week >= 52 /\ ord >= isoweek1monday(year + 1)
       THEN <<year, 1, isoweekday(ord)>>
       ELSE <<year, week + 1, isoweekday(ord)>>

\* date.isocalendar() as <<ISO year, ISO week, ISO weekday>>
isocalendar(ord) ==
    LET year == ord2ymd(ord)[1]
        week == (ord - isoweek1monday(year)) \div 7
    IN IF week < 0
       THEN <<year - 1, (ord - isoweek1monday(year - 1)) \div 7 + 1, isoweekday(ord)>>
       ELSE IF week >= 52 /\ ord >= isoweek1monday(year + 1)
       THEN <<year + 1, 1, isoweekday(ord)>>
       ELSE <<year, week + 1, isoweekday(ord)>>

\* format(n, "02d")
Pad2(n) == IF n < 10 THEN <<"0">> \o IntToText(n) ELSE IntToText(n)

\* week_link(year, week)
week_link(year, week) ==
    <<"[", "[">> \o IntToText(year) \o <<"-", "W">> \o Pad2(week)
    \o <<"|", "W", "e", "e", "k", " ">> \o IntToText(week) \o <<"]", "]">>

\* the week_nav line around the three links
WeekNavLine(prev, week, next) ==
    <<"U+276E", " ">> \o prev \o <<" ", "|", " ", "W", "e", "e", "k", " ">>
    \o IntToText(week) \o <<" ", "|", " ">> \o next \o <<" ", "U+276F">>

\* week_nav of _generate_daily_template
week_nav(date) ==
    LET iso_week == isocalendar(date)[2]
        prev_week == isocalendar(date - 7)
        next_week == isocalendar(date + 7)
    IN WeekNavLine(week_link(prev_week[1], prev_week[2]), iso_week,
                   week_link(next_week[1], next_week[2]))

\* strftime("%Y-%m-%d") and strftime("%d") in one day link
day_link(ord) ==
    LET ymd == ord2ymd(ord) IN
    <<"[", "[">> \o IntToText(ymd[1]) \o <<"-">> \o Pad2(ymd[2]) \o <<"-">>
    \o Pad2(ymd[3]) \o <<"|">> \o Pad2(ymd[3]) \o <<"]", "]">>

\* start_of_week computed from the Sunday-based weekday
start_of_week_SundayStart(date) == date - (isoweekday(date) % 7)

\* start_of_week = date - timedelta(days=date.isoweekday() - 1)
start_of_week(date) == date - (isoweekday(date) - 1)

\* " - ".join(days)
RECURSIVE JoinDays(_)
JoinDays(days) ==
    IF Len(days) = 0 THEN <<>>
    ELSE IF Len(days) = 1 THEN days[1]
    ELSE days[1] \o <<" ", "-", " ">> \o JoinDays(Tail(days))

\* week_days of _generate_daily_template
week_days(date) ==
    JoinDays([i \in 1..7 |-> day_link(start_of_week(date) + (i - 1))])

\* _generate_daily_template(date): its week-navigation line and its day list
\* (the front matter and the breadcrumb line are constant texts around them)
generate_daily_template(date) ==
    [kind |-> "template", date |-> date,
     week_nav |-> week_nav(date), week_days |-> week_days(date)]

Dates == ymd2ord(FirstYear, 1, 1)..ymd2ord(LastYear, 12, 31)

InitHeader ==
    /\ settings = [DefaultSettings EXCEPT !.bot_mode = "transcription"]
    /\ fs = <<>>
    /\ notes = <<>>
    /\ today \in Dates
    /\ h = [m \in Msgs |-> IdleHandler]
    /\ calls = <<>>
    /\ appended = <<>>
    /\ received = 0
    /\ message = NoMessage
    /\ app = AppIdle
    /\ CmdIdle
    /\ StoIdle

\* save_to_markdown writes the header of today's new note
GenerateTemplate ==
    /\ notes = <<>>
    /\ notes' = [d \in {today} |-> <<generate_daily_template(today)>>]
    /\ UNCHANGED <<settings, fs, today, h, calls, appended, received, cmdVars, stoVars, message, app>>

NextHeader == GenerateTemplate

SpecHeader == InitHeader /\ [][NextHeader]_vars

\* ISO 8601, stated from the standard: a week runs Monday..Sunday and belongs
\* to the year that holds its Thursday; weeks are numbered from 1
MondayOf(ord) == CHOOSE mo \in (ord - 6)..ord : mo % 7 = 1
YearOf(ord) ==
    CHOOSE y \in (ord \div 366)..(ord \div 365 + 1) :
        days_before_year(y) < ord /\ ord <= days_before_year(y + 1)
IsoYear(ord) == YearOf(MondayOf(ord) + 3)
IsoWeek(ord) == (MondayOf(ord) + 3 - days_before_year(IsoYear(ord)) - 1) \div 7 + 1
\* 28 December always lies in the last ISO week of its year
LastIsoWeek(y) == IsoWeek(days_before_year(y + 1) - 3)
NextIsoWeek(y, w) == IF w < LastIsoWeek(y) THEN <<y, w + 1>> ELSE <<y + 1, 1>>

\* the header written for today
Header == notes[today][1]

\* C28: the week-navigation line shows the ISO week of the date between a
\* link to the ISO (year, week) of the date minus 7 days and a link to the
\* ISO (year, week) of the date plus 7 days, the year being the ISO
\* week-numbering year; the three weeks are consecutive ISO weeks
C28_WeekNavigation ==
    today \in DOMAIN notes =>
        LET prev == <<IsoYear(today - 7), IsoWeek(today - 7)>>
            cur == <<IsoYear(today), IsoWeek(today)>>
            next == <<IsoYear(today + 7), IsoWeek(today + 7)>>
        IN /\ Header.week_nav = WeekNavLine(week_link(prev[1], prev[2]), cur[2],
                                            week_link(next[1], next[2]))
           /\ NextIsoWeek(prev[1], prev[2]) = cur
           /\ NextIsoWeek(cur[1], cur[2]) = next

\* Monday 30 December 2024 lies in week 1 of ISO year 2025
C28_Witness ==
    /\ today = ymd2ord(2024, 12, 30)
    /\ today \in DOMAIN notes
    /\ Header.week_nav =
          <<"U+276E", " ", "[", "[", "2", "0", "2", "4", "-", "W", "5", "2", "|",
            "W", "e", "e", "k", " ", "5", "2", "]", "]", " ", "|", " ", "W", "e",
            "e", "k", " ", "1", " ", "|", " ", "[", "[", "2", "0", "2", "5", "-",
            "W", "0", "2", "|", "W", "e", "e", "k", " ", "2", "]", "]", " ",
            "U+276F">>

\* the digits of a text as a number
RECURSIVE TextToInt(_)
TextToInt(t) ==
    IF Len(t) = 0 THEN 0
    ELSE TextToInt(SubSeq(t, 1, Len(t) - 1)) * 10
         + (CHOOSE v \in 0..9 : DigitChar(v) = t[Len(t)])

\* the calendar date of an ordinal, found by search
CivilDate(ord) ==
    LET y == YearOf(ord)
        m == CHOOSE k \in 1..12 :
                /\ days_before_month(y, k) < ord - days_before_year(y)
                /\ k = 12 \/ ord - days_before_year(y) <= days_before_month(y, k + 1)
    IN <<y, m, ord - days_before_year(y) - days_before_month(y, m)>>

\* text is "[[YYYY-MM-DD|DD]]" for the date of ord
IsDayLink(text, ord) ==
    LET ymd == CivilDate(ord) IN
    /\ Len(text) = 17
    /\ SubSeq(text, 1, 2) = <<"[", "[">>
    /\ \A i \in {3, 4, 5, 6, 8, 9, 11, 12, 14, 15} : \E v \in 0..9 : DigitChar(v) = text[i]
    /\ TextToInt(SubSeq(text, 3, 6)) = ymd[1]
    /\ text[7] = "-"
    /\ TextToInt(SubSeq(text, 8, 9)) = ymd[2]
    /\ text[10] = "-"
    /\ TextToInt(SubSeq(text, 11, 12)) = ymd[3]
    /\ text[13] = "|"
    /\ TextToInt(SubSeq(text, 14, 15)) = ymd[3]
    /\ SubSeq(text, 16, 17) = <<"]", "]">>

\* C29: the day list holds exactly seven links, separated by " - ", to seven
\* consecutive dates from the Monday on or before the date to the following
\* Sunday, the date among them; each link targets YYYY-MM-DD and is labelled
\* by the day of month
C29_WeekDays ==
    today \in DOMAIN notes =>
        LET line == Header.week_days
            monday == MondayOf(today)
        IN /\ Len(line) = 7 * 17 + 6 * 3
           /\ \A i \in 1..7 :
                 IsDayLink(SubSeq(line, 20 * (i - 1) + 1, 20 * (i - 1) + 17),
                           monday + (i - 1))
           /\ \A i \in 1..6 :
                 SubSeq(line, 20 * i - 2, 20 * i) = <<" ", "-", " ">>
           /\ monday <= today /\ today <= monday + 6

\* Wednesday 1 January 2025: the week starts in December 2024
C29_Witness ==
    /\ today = ymd2ord(2025, 1, 1)
    /\ today \in DOMAIN notes
    /\ Header.week_days =
          <<"[", "[", "2", "0", "2", "4", "-", "1", "2", "-", "3", "0", "|", "3",
            "0", "]", "]", " ", "-", " ", "[", "[", "2", "0", "2", "4", "-", "1",
            "2", "-", "3", "1", "|", "3", "1", "]", "]", " ", "-", " ", "[", "[",
            "2", "0", "2", "5", "-", "0", "1", "-", "0", "1", "|", "0", "1", "]",
            "]", " ", "-", " ", "[", "[", "2", "0", "2", "5", "-", "0", "1", "-",
            "0", "2", "|", "0", "2", "]", "]", " ", "-", " ", "[", "[", "2", "0",
            "2", "5", "-", "0", "1", "-", "0", "3", "|", "0", "3", "]", "]", " ",
            "-", " ", "[", "[", "2", "0", "2", "5", "-", "0", "1", "-", "0", "4",
            "|", "0", "4", "]", "]", " ", "-", " ", "[", "[", "2", "0", "2", "5",
            "-", "0", "1", "-", "0", "5", "|", "0", "5", "]", "]">>

(***************************************************************************)
(* The construction of Settings: directly, Settings(...) running            *)
(* __post_init__, and through Settings.from_env from environment texts.     *)
(* An unset variable is <<>>.                                               *)
(***************************************************************************)
\* int(text): <<n>>, or <<>> where int raises ValueError
ParseInt(text) ==
    LET digits == IF Len(text) > 0 /\ text[1] = "-" THEN Tail(text) ELSE text IN
    IF Len(digits) = 0 \/ \E i \in 1..Len(digits) : \A v \in 0..9 : DigitChar(v) # digits[i]
    THEN <<>>
    ELSE IF text[1] = "-" THEN <<0 - TextToInt(digits)>> ELSE <<TextToInt(digits)>>

\* __post_init__ without the check of max_file_size
post_init_NoSizeCheck(st) ==
    IF ~(64 <= st.audio_bitrate /\ st.audio_bitrate <= 128) THEN "ValueError"
    ELSE IF st.processing_timeout <= 0 THEN "ValueError"
    ELSE ""

\* Settings.__post_init__: the exception it raises, "" where it returns
post_init(st) ==
    IF ~(64 <= st.audio_bitrate /\ st.audio_bitrate <= 128) THEN "ValueError"
    ELSE IF st.max_file_size <= 0 THEN "ValueError"
    ELSE IF st.processing_timeout <= 0 THEN "ValueError"
    ELSE ""

\* cls(...): the dataclass constructor, [raised, value]
construct(st) ==
    IF post_init(st) # "" THEN [raised |-> post_init(st), value |-> NoSettings]
    ELSE [raised |-> "", value |-> st]

Failed(class) == [raised |-> class, value |-> NoSettings]

\* os.getenv(name, default)
getenv(env, name, default) == IF env[name] = <<>> THEN default ELSE env[name]

\* Settings.from_env on the environment env
from_env(env) ==
    LET channel_id == ParseInt(env.CHANNEL_ID)
        work_dir == ParsePath(getenv(env, "WORK_DIR", <<"/", "w", "o", "r", "k">>))
        background_image ==
            ParsePath(getenv(env, "BACKGROUND_IMAGE",
                             <<"/", "w", "o", "r", "k", "/", "a", "s", "s", "e", "t", "s",
                               "/", "b", "g", ".", "j", "p", "g">>))
        delete_on_success ==
            Lower(getenv(env, "DELETE_ON_SUCCESS", <<"f", "a", "l", "s", "e">>))
                \in {<<"t", "r", "u", "e">>, <<"1">>, <<"y", "e", "s">>}
        audio_bitrate == ParseInt(getenv(env, "AUDIO_BITRATE", IntToText(DefaultBitrate)))
        max_file_size == ParseInt(getenv(env, "MAX_FILE_SIZE", IntToText(DefaultMaxFileSize)))
        processing_timeout ==
            ParseInt(getenv(env, "PROCESSING_TIMEOUT", IntToText(DefaultTimeout)))
    IN IF env.DISCORD_TOKEN = <<>> THEN Failed("ValueError")
       ELSE IF env.CHANNEL_ID = <<>> THEN Failed("ValueError")
       ELSE IF channel_id = <<>> THEN Failed("ValueError")
       ELSE IF audio_bitrate = <<>> THEN Failed("ValueError")
       ELSE IF ~(64 <= audio_bitrate[1] /\ audio_bitrate[1] <= 128) THEN Failed("ValueError")
       ELSE IF max_file_size = <<>> THEN Failed("ValueError")
       ELSE IF processing_timeout = <<>> THEN Failed("ValueError")
       ELSE construct([DefaultSettings EXCEPT !.channel_id = channel_id[1],
                                              !.work_dir = work_dir,
                                              !.background_image = background_image,
                                              !.delete_on_success = delete_on_success,
                                              !.audio_bitrate = audio_bitrate[1],
                                              !.max_file_size = max_file_size[1],
                                              !.processing_timeout = processing_timeout[1]])

\* values around the limits of the three checked fields
BitrateArgs == {MinBitrate - 1, MinBitrate, DefaultBitrate, MaxBitrate, MaxBitrate + 1}
LimitArgs == {0 - 1, 0, 1, DefaultTimeout}
EnvNumbers == {<<>>, <<"x">>, <<"0">>, <<"-", "1">>, <<"1">>}
EnvBitrates == {<<>>, <<"x">>} \cup {IntToText(n) : n \in BitrateArgs}
Environments ==
    [DISCORD_TOKEN : {<<>>, <<"t">>},
     CHANNEL_ID : {<<>>, <<"x">>, IntToText(MonitoredChannel)},
     WORK_DIR : {<<>>, <<"/", "w">>},
     BACKGROUND_IMAGE : {<<>>, <<"b", "g">>},
     DELETE_ON_SUCCESS : {<<>>, <<"Y", "E", "S">>, <<"0">>},
     AUDIO_BITRATE : EnvBitrates,
     MAX_FILE_SIZE : EnvNumbers,
     PROCESSING_TIMEOUT : EnvNumbers]

InitSettings ==
    /\ settings = NoSettings
    /\ app = [AppIdle EXCEPT !.pc = "start"]
    /\ fs = <<>>
    /\ notes = <<>>
    /\ today = 1
    /\ h = [m \in Msgs |-> IdleHandler]
    /\ calls = <<>>
    /\ appended = <<>>
    /\ received = 0
    /\ message = NoMessage
    /\ CmdIdle
    /\ StoIdle

\* the outcome of a construction attempt
Constructed(via, args, res) ==
    /\ app.pc = "start"
    /\ settings' = res.value
    /\ app' = [pc |-> IF res.raised = "" THEN "running" ELSE "failed",
               via |-> via, args |-> args, error |-> res.raised]
    /\ UNCHANGED <<fs, notes, today, h, calls, appended, received, message, cmdVars, stoVars>>

\* Settings(audio_bitrate=ab, max_file_size=size, processing_timeout=timeout)
ConstructDirect(ab, size, timeout) ==
    LET st == [DefaultSettings EXCEPT !.audio_bitrate = ab, !.max_file_size = size,
                                      !.processing_timeout = timeout]
    IN Constructed("direct", st, construct(st))

\* Settings.from_env() in the environment env
ConstructFromEnv(env) == Constructed("from_env", env, from_env(env))

NextSettings ==
    \/ \E ab \in BitrateArgs, size \in LimitArgs, timeout \in LimitArgs :
          ConstructDirect(ab, size, timeout)
    \/ \E env \in Environments : ConstructFromEnv(env)

SpecSettings == InitSettings /\ [][NextSettings]_vars

\* the ranges of the spec, on the three numbers of an attempt
InRanges(ab, size, timeout) == 64 <= ab /\ ab <= 128 /\ size > 0 /\ timeout > 0

\* C30: a Settings that was constructed, directly or through from_env, has
\* 64 <= audio_bitrate <= 128, max_file_size > 0 and processing_timeout > 0;
\* an attempt with a value outside these ranges raises ValueError and yields
\* no Settings, and a direct attempt inside them yields the Settings
C30_SettingsRanges ==
    /\ app.pc = "running" =>
          InRanges(settings.audio_bitrate, settings.max_file_size,
                   settings.processing_timeout)
    /\ app.pc = "failed" => (app.error = "ValueError" /\ settings = NoSettings)
    /\ (app.pc # "start" /\ app.via = "direct") =>
          (app.pc = "running" <=> InRanges(app.args.audio_bitrate, app.args.max_file_size,
                                           app.args.processing_timeout))
    /\ (app.pc = "running" /\ app.via = "from_env" /\ app.args.AUDIO_BITRATE # <<>>) =>
          IntToText(settings.audio_bitrate) = app.args.AUDIO_BITRATE

\* a Settings built from the environment at the lower bitrate limit
C30_Witness ==
    /\ app.pc = "running"
    /\ app.via = "from_env"
    /\ app.args.AUDIO_BITRATE = <<"6", "4">>
    /\ app.args.DELETE_ON_SUCCESS = <<"Y", "E", "S">>
    /\ settings.audio_bitrate = 64
    /\ settings.max_file_size = 1
    /\ settings.delete_on_success

\* C31: with only the required variables set, from_env yields a Settings with
\* work_dir /work, background_image /work/assets/bg.jpg, delete_on_success
\* false, audio_bitrate 128, max_file_size 25 MiB and processing_timeout 300
C31_FromEnvDefaults ==
    (/\ app.pc # "start"
     /\ app.via = "from_env"
     /\ app.args.DISCORD_TOKEN # <<>>
     /\ ParseInt(app.args.CHANNEL_ID) # <<>>
     /\ \A name \in {"WORK_DIR", "BACKGROUND_IMAGE", "DELETE_ON_SUCCESS", "AUDIO_BITRATE",
                     "MAX_FILE_SIZE", "PROCESSING_TIMEOUT"} : app.args[name] = <<>>)
    => /\ app.pc = "running"
       /\ settings.work_dir = <<ROOT, <<"w", "o", "r", "k">>>>
       /\ settings.background_image =
             <<ROOT, <<"w", "o", "r", "k">>, <<"a", "s", "s", "e", "t", "s">>,
               <<"b", "g", ".", "j", "p", "g">>>>
       /\ ~settings.delete_on_success
       /\ settings.audio_bitrate = 128
       /\ settings.max_file_size = 25 * 1024 * 1024
       /\ settings.processing_timeout = 300

\* C32: while the child runs the supervisor waits in slices of at most
\* min(30 seconds, remaining budget); a slice that expires with the elapsed
\* time below the timeout logs progress and the wait goes on, a slice that
\* expires with the elapsed time at or past the timeout raises the timeout,
\* and the timeout is never raised earlier
C32_SlicedWait ==
    /\ [](\A m \in Msgs :
            /\ (h[m].pc = "waiting" /\ h[m].elapsed <= settings.processing_timeout) =>
                  /\ h[m].waitLeft <= 30
                  /\ h[m].waitLeft <= settings.processing_timeout - h[m].elapsed
            /\ h[m].tripped => h[m].elapsed >= settings.processing_timeout)
    /\ [][\A m \in Msgs :
            (/\ h[m].pc = "waiting"
             /\ h[m].returncode = <<>>
             /\ h'[m].pc \in {"sleeping", "reaping"})
            => IF h[m].elapsed < settings.processing_timeout
               THEN /\ h'[m].pc = "sleeping"
                    /\ h'[m].progress = h[m].progress + 1
                    /\ ~h'[m].tripped
               ELSE /\ h'[m].pc = "reaping"
                    /\ h'[m].tripped
                    /\ h'[m].progress = h[m].progress]_vars

\* two progress observations, then the timeout
C32_Witness ==
    /\ h[1].progress = 2
    /\ h[1].tripped
    /\ h[1].elapsed = settings.processing_timeout

(***************************************************************************)
(* Two attachments in flight together, each in the first two handlers,     *)
(* their downloads just ended: the failures of two conversions side by     *)
(* side.                                                                   *)
(***************************************************************************)
FirstTwo == {1, 2} \cap Msgs

InitTwo ==
    /\ settings \in {[DefaultSettings EXCEPT !.delete_on_success = d,
                                             !.max_file_size = MaxBytes,
                                             !.processing_timeout = BotTimeout] :
                        d \in BOOLEAN}
    /\ \E names \in [FirstTwo -> BotNames] :
          /\ fs = [q \in {get_inbox_path(names[m]) : m \in FirstTwo}
                         \cup {BackgroundImage} |-> 1]
          /\ h = [m \in Msgs |-> IF m \in FirstTwo
                                 THEN Downloading(names[m], 1) ELSE IdleHandler]
    /\ notes = <<>>
    /\ today = 1
    /\ calls = <<>>
    /\ appended = <<>>
    /\ received = Cardinality(FirstTwo)
    /\ message = NoMessage
    /\ app = AppIdle
    /\ CmdIdle
    /\ StoIdle

NextTwo ==
    \/ \E m \in FirstTwo : PairStep(m)
    \/ Tick

SpecTwo == InitTwo /\ [][NextTwo]_vars

C34_InboxPathUnderRoot ==
    (cmd # <<>> /\ PathName(ParsePath(cmdName)) # <<>>) =>
        LET p == get_inbox_path(cmdName) IN
        /\ PathParent(p) = InboxDir
        /\ PathName(p) = cmdName
        /\ cleanup_inbox_file([q \in {p} |-> 1], p) = <<>>

(***************************************************************************)
(* Application.run and Application.shutdown (src/src/__main__.py): the bot *)
(* task and the shutdown-event task under asyncio.wait, the cancellation   *)
(* of what is pending, and the closing of the bot in the finally clause.   *)
(* A task is "running", "finished", "raised" or "cancelled".               *)
(***************************************************************************)
AppTasks == {"bot_task", "shutdown_task"}

\* the application at the call of run(); bot is FALSE when initialize() was
\* not called (self.bot is None)
AppAtRun(bot) ==
    [pc |-> "run", via |-> "", args |-> <<>>, error |-> "",
     bot |-> bot, bot_task |-> "none", shutdown_task |-> "none",
     done |-> {}, pending |-> {}, cancel_called |-> {},
     closes |-> 0, close_error |-> FALSE]

InitApp ==
    /\ settings \in {[DefaultSettings EXCEPT !.bot_mode = md, !.delete_on_success = d] :
                        md \in BotModes, d \in BOOLEAN}
    /\ app \in {AppAtRun(bot) : bot \in BOOLEAN}
    /\ fs = [q \in {BackgroundImage} |-> 1]
    /\ notes = <<>>
    /\ today = 1
    /\ h = [m \in Msgs |-> IdleHandler]
    /\ calls = <<>>
    /\ appended = <<>>
    /\ received = 0
    /\ message = NoMessage
    /\ CmdIdle
    /\ StoIdle

AppFrame ==
    UNCHANGED <<settings, fs, notes, today, h, calls, appended, received, message,
                cmdVars, stoVars>>

\* the tasks of a that have completed
Completes(a) == {t \in AppTasks : a[t] \in {"finished", "raised", "cancelled"}}

\* shutdown() that leaves the bot open
shutdown_NoClose(a, oc) == a

\* Application.shutdown: bot.close() is awaited when there is a bot, and an
\* Exception it raises is logged and swallowed
shutdown(a, oc) ==
    IF a.bot
    THEN [a EXCEPT !.closes = @ + 1, !.close_error = (oc = "error")]
    ELSE a

\* run() up to `await asyncio.wait(...)`; without a bot RuntimeError is
\* raised, caught, logged and re-raised through the finally clause
RunStart ==
    /\ app.pc = "run"
    /\ app' = IF app.bot
              THEN [app EXCEPT !.pc = "wait", !.bot_task = "running",
                               !.shutdown_task = "running"]
              ELSE [app EXCEPT !.pc = "finally", !.error = "RuntimeError"]
    /\ AppFrame

\* bot.start() returns or raises while its task runs
BotTaskEnds(how) ==
    /\ app.bot_task = "running"
    /\ app.pc \in {"wait", "cancel"}
    /\ "bot_task" \notin app.cancel_called
    /\ app' = [app EXCEPT !.bot_task = how]
    /\ AppFrame

\* the signal handler sets the shutdown event: _shutdown_event.wait() returns
Signal ==
    /\ app.shutdown_task = "running"
    /\ app.pc \in {"wait", "cancel"}
    /\ "shutdown_task" \notin app.cancel_called
    /\ app' = [app EXCEPT !.shutdown_task = "finished"]
    /\ AppFrame

\* asyncio.wait returns with FIRST_COMPLETED
WaitReturns ==
    /\ app.pc = "wait"
    /\ Completes(app) # {}
    /\ app' = [app EXCEPT !.pc = "cancel", !.done = Completes(app),
                          !.pending = AppTasks \ Completes(app)]
    /\ AppFrame

\* task.cancel() and `await task` for a pending task t.  The task ends as
\* cancelled (CancelledError, caught by run) or has completed meanwhile; the
\* bot task may answer the cancellation with another exception, which
\* leaves the loop (Event.wait() only ever raises CancelledError)
CancelPending(t, how) ==
    /\ app.pc = "cancel"
    /\ t \in app.pending \ app.cancel_called
    /\ how = "raised" => t = "bot_task"
    /\ LET end == IF app[t] = "running" THEN how ELSE app[t]
           a == [app EXCEPT ![t] = end, !.cancel_called = @ \cup {t}]
       IN app' = IF end = "raised"
                 THEN [a EXCEPT !.pc = "finally", !.error = "Exception"]
                 ELSE a
    /\ AppFrame

\* after the loop: `if bot_task in done: await bot_task`
AfterCancel ==
    /\ app.pc = "cancel"
    /\ app.pending \subseteq app.cancel_called
    /\ app' = IF "bot_task" \in app.done /\ app.bot_task = "raised"
              THEN [app EXCEPT !.pc = "finally", !.error = "Exception"]
              ELSE [app EXCEPT !.pc = "finally"]
    /\ AppFrame

\* finally: await self.shutdown(); then run returns or re-raises
Shutdown(oc) ==
    /\ app.pc = "finally"
    /\ app' = [shutdown(app, oc) EXCEPT !.pc = IF app.error = "" THEN "returned" ELSE "raised"]
    /\ AppFrame

NextApp ==
    \/ RunStart
    \/ \E how \in {"finished", "raised"} : BotTaskEnds(how)
    \/ Signal
    \/ WaitReturns
    \/ \E t \in AppTasks, how \in {"cancelled", "raised"} : CancelPending(t, how)
    \/ AfterCancel
    \/ \E oc \in {"ok", "error"} : Shutdown(oc)

SpecApp == InitApp /\ [][NextApp]_vars

\* run has returned or re-raised
RunEnded == app.pc \in {"returned", "raised"}

\* C35: when run ends after the bot task finished, the bot task raised or
\* the shutdown signal arrived, every task that was pending when the wait
\* returned has had cancel() called and no task is running any more, the
\* bot has been closed exactly once, and run re-raises exactly when the bot
\* task raised, whether or not the closing failed
C35_RunClosesBot ==
    (RunEnded /\ app.bot) =>
        /\ app.closes = 1
        /\ app.done # {}
        /\ app.pending = app.cancel_called
        /\ \A t \in AppTasks : app[t] # "running"
        /\ (app.pc = "raised") <=> (app.bot_task = "raised")

\* the signal arrived, the bot task was cancelled, closing failed, run returned
C35_Witness ==
    /\ app.pc = "returned"
    /\ app.shutdown_task = "finished"
    /\ app.bot_task = "cancelled"
    /\ app.closes = 1
    /\ app.close_error

(***************************************************************************)
(* Termination of the video mode: one attachment from the end of its       *)
(* download to the end of its processing, for every timeout up to          *)
(* MaxTimeout.  The event loop resumes every coroutine whose await has     *)
(* completed, time passes, the operating system hands the status of an     *)
(* ended child to the loop, and the calls of the chat service return or    *)
(* raise; nothing is assumed of the encoder: it may write or not, exit or  *)
(* not.                                                                    *)
(***************************************************************************)
NextVideo ==
    \/ NextRunner
    \/ \E oc \in ChatOutcomes : Edit(1, oc)
    \/ \E oc \in ChatOutcomes : ErrReply(1, oc)

\* the steps that do not depend on the encoder: the event loop, the clock,
\* the operating system and the chat service
Scheduled ==
    \/ DlEnd(1)
    \/ \E oc \in LaunchOutcomes : Launch(1, oc)
    \/ Tick
    \/ LoopObserve(1)
    \/ Completed(1)
    \/ SliceExpired(1)
    \/ SleepDone(1)
    \/ Reaped(1)
    \/ \E oc \in ChatOutcomes : Edit(1, oc)
    \/ \E oc \in ChatOutcomes : ErrReply(1, oc)

FairVideo == WF_vars(Scheduled)

\* the download of a.ogg has just ended; timeouts of one short slice, of
\* one whole slice, of a slice, a sleep and a last slice, and of MaxTimeout
InitVideo ==
    /\ settings \in {[DefaultSettings EXCEPT !.max_file_size = MaxBytes,
                                             !.processing_timeout = t] :
                        t \in {BotTimeout, CheckInterval, CheckInterval + BotTimeout,
                              MaxTimeout}}
    /\ \E bg \in SUBSET {BackgroundImage}, old \in SUBSET {get_output_path(F_a_ogg)} :
          fs = [q \in {get_inbox_path(F_a_ogg)} \cup bg \cup old |-> 1]
    /\ notes = <<>>
    /\ today = 1
    /\ h = [m \in Msgs |-> IF m = 1 THEN Downloading(F_a_ogg, 1) ELSE IdleHandler]
    /\ calls = <<>>
    /\ appended = <<>>
    /\ received = 1
    /\ message = NoMessage
    /\ app = AppIdle
    /\ CmdIdle
    /\ StoIdle

SpecVideo == InitVideo /\ [][NextVideo]_vars /\ FairVideo

\* the attachment is being converted: the encoder is launched or supervised
Converting(hm) == hm.pc \in {"launch", "waiting", "sleeping", "reaping"}
\* the handler has left _process_audio_attachment for its only attachment
Terminal(hm) == hm.pc \in {"done", "crashed"} /\ Len(hm.outcome) = 1

\* C36: in video mode an attachment whose download has completed reaches a
\* terminal state, Succeeded or Failed, whatever the encoder does; while the
\* supervision loop waits or sleeps no more than the timeout plus one polling
\* step has elapsed, and no behaviour stays in Converting for ever
C36_VideoTerminates ==
    /\ [](\A m \in Msgs :
            h[m].pc \in {"waiting", "sleeping"} =>
                h[m].elapsed <= settings.processing_timeout + SleepStep)
    /\ [](Converting(h[1]) => <>(~Converting(h[1])))
    /\ <>(Terminal(h[1]) /\ h[1].outcome[1] \in {"Succeeded", "Failed"})

\* the encoder never exited on its own: the timeout tripped, it was killed
\* and the attachment ended Failed
C36_Witness ==
    /\ Terminal(h[1])
    /\ h[1].outcome = <<"Failed">>
    /\ h[1].tripped
    /\ h[1].returncode = <<KilledCode>>

\* C37: convert_audio_to_video returns normally only when the encoder it
\* supervised opened and wrote the output file during this run; a file left
\* at the output path by an earlier attachment with the same stem does not
\* make a run that exited 0 without writing count as a success
C37_SuccessNeedsOwnOutput ==
    \A m \in Msgs :
        (settings.bot_mode = "video" /\ ConvertEnded(h[m]) /\ h[m].result.kind = "ok") =>
            h[m].outOpen /\ h[m].outOff > 0

\* the handler is in the except clause entered because the downloaded file
\* failed validate_file_size: more bytes were written than max_file_size
Oversize(hm) ==
    /\ hm.pc = "err_reply"
    /\ hm.err = "unexpected"
    /\ hm.dlOff > settings.max_file_size

\* C38: when the bytes downloaded for an attachment exceed max_file_size,
\* neither the encoder nor the transcription is invoked for it, and the step
\* that ends its processing leaves it Failed with its inbox copy removed
C38_OversizeFailsAndCleans ==
    /\ [](\A m \in Msgs : Oversize(h[m]) => h[m].proc = "none" /\ h[m].result.kind = "none")
    /\ [][\A m \in Msgs :
            (Oversize(h[m]) /\ h'[m] # h[m]) =>
                /\ calls' = calls
                /\ h'[m].outcome = Append(h[m].outcome, "Failed")
                /\ InPath(h[m]) \notin DOMAIN fs']_vars

\* nothing of the attachment is in progress: no download handle is open and
\* no encoder child is running or waits to be reaped
Quiet(hm) == ~hm.dlLinked /\ hm.proc \in {"none", "reaped"}

\* C39: the audio attachments of one message are processed one at a time in
\* their order: while attachment i is processed every attachment before it
\* has its terminal outcome, and the step that starts attachment i+1 is the
\* step that ends attachment i, after its final status (and cleanup), with
\* nothing of attachment i still in progress
C39_OneAttachmentAtATime ==
    /\ [](\A m \in Msgs :
            InFlight(h[m]) =>
                /\ h[m].idx \in 1..Len(h[m].atts)
                /\ Len(h[m].outcome) = h[m].idx - 1)
    /\ [][\A m \in Msgs :
            (InFlight(h[m]) /\ h'[m].idx # h[m].idx) =>
                /\ h'[m].idx = h[m].idx + 1
                /\ h'[m].atts = h[m].atts
                /\ h[m].pc \in {"edit", "err_reply"}
                /\ Quiet(h[m])
                /\ h'[m].pc = "reply"
                /\ Len(h'[m].outcome) = h[m].idx
                /\ (h[m].pc = "edit" \/ CleansInbox(settings.bot_mode, h[m].err))
                       => InPath(h[m]) \notin DOMAIN fs']_vars

\* the second attachment is being downloaded after the first one succeeded
C39_Witness ==
    /\ h[1].idx = 2
    /\ h[1].pc = "dl_stream"
    /\ h[1].outcome = <<"Succeeded">>

\* C40: when validate_ffmpeg_installation has returned, the child it launched
\* for the version query is no longer running, also when it returned false
\* because the timeout of ProbeTimeout seconds expired
C40_ProbeChildEnded ==
    (h[1].pc = "ready" /\ h[1].outcome # <<>>) => h[1].proc # "running"

====
